---- MODULE Spec2Model ----
(***************************************************************************)
(* MQTT <-> OpenAI Realtime bridge (hw-mqtt-srv).                          *)
(*                                                                         *)
(* The model follows src/src/mqtt/client.py (MQTTAIServer) and             *)
(* src/src/ai_services/openai_realtime.py (OpenAIRealtimeService).         *)
(* Every inbound MQTT message is handled by its own coroutine on one       *)
(* asyncio event loop (client.py:228-234), so a handler runs atomically    *)
(* from one suspension point (an await on the backend websocket) to the    *)
(* next.  One action of the model is one such run.  Publishing through     *)
(* paho is synchronous and never suspends.                                 *)
(***************************************************************************)
EXTENDS Integers, Sequences, FiniteSets, TLC

\* ------------------------------------------------------------------ bounds
\* Number of inbound messages (each handled by its own task).
NumHandlers == 2
\* Largest number of response chunks the backend delivers to one request.
MaxChunks == 2
\* Largest number of publishes the broker client refuses (rc # MQTT_ERR_SUCCESS).
MaxPublishFailures == 1

Handlers == 1..NumHandlers

\* Identifiers are strings, modelled as sequences of characters so that the
\* service's key formatting (base.py:104) is computed.
Devices == { <<"d", "1">>, <<"d", "2">> }
Sessions == { <<"s", "1">>, <<"s", "2">> }

\* Identifiers arrive in the payload and are not checked for colons: two
\* different (device, session) pairs that base.py:104 joins to the same text.
ColonIds ==
  { [device_id |-> <<"a">>, session_id |-> <<"b", ":", "c">>],
    [device_id |-> <<"a", ":", "b">>, session_id |-> <<"c">>] }

\* Values of server_config["max_concurrent_sessions"] tried (client.py:76).
Capacities == {1, 2}

NoRequest == [device_id |-> <<>>, session_id |-> <<>>, audio_data |-> <<>>]

\* ------------------------------------------------------------------ state
VARIABLES
  max_concurrent_sessions, \* MQTTAIServer.max_concurrent_sessions
  active_sessions,         \* MQTTAIServer._active_sessions : Set[str]
  message_stats,           \* MQTTAIServer._message_stats
  svc_sessions,            \* OpenAIRealtimeService._active_sessions : key -> connection
  ws_state,                \* per websocket: "none" | "open" | "closed"
  pc,                      \* per handler: position of its coroutine
  request,                 \* per handler: the decoded AudioRequestMessage
  websocket,               \* per handler: `websocket` of process_audio_stream (0: none)
  chunk_id,                \* per handler: `chunk_id` of process_audio_stream
  outcome,                 \* per handler: how its handling ended
  delivered,               \* per handler: content deltas the backend delivered to it
  publish_failures,        \* publishes the broker client refused so far
  published,               \* per handler: what it published, in publish order
  \* The codec of messages.py, exercised on its own:
  audio_bytes,             \* the audio a message is created from
  created,                 \* a message object in memory
  wire,                    \* a payload: the JSON text of a message
  decoded,                 \* what parse_message made of `wire`
  recovered,               \* what get_audio_bytes made of `decoded`
  \* The backend connection, observed frame by frame:
  wire_log,                \* per caller: the frames it sent and received, in order
  connect_log,             \* per caller: the connection strategies it tried, and the end
  \* The server's life cycle:
  running,                 \* MQTTAIServer._running
  health_pc,               \* position of _health_check_task
  health_published,        \* `health_message` as handed to publish in this turn of the task
  cleanup_pc,              \* position of _session_cleanup_task and the count it last logged
  probe,                   \* health_check(): its position, the strategies tried, its websocket, its result
  \* The other end of the connections:
  backend                  \* per connection the events on their way to recv(), per caller
                           \* what was emitted for its response.create and what it read

codec_vars == << audio_bytes, created, wire, decoded, recovered >>

lifecycle_vars == << running, health_pc, health_published, cleanup_pc, probe >>

vars == << max_concurrent_sessions, active_sessions, message_stats, svc_sessions,
           ws_state, pc, request, websocket, chunk_id, outcome, delivered,
           publish_failures, published, codec_vars, wire_log, connect_log,
           lifecycle_vars, backend >>

\* ------------------------------------------------- pure helpers of the code

Range(seq) == { seq[i] : i \in 1..Len(seq) }

\* AIServiceInterface._create_session_key: f"{device_id}:{session_id}"
_create_session_key(device_id, session_id) == device_id \o <<":">> \o session_id

SessionKeys ==
  { _create_session_key(d, s) : d \in Devices, s \in Sessions }
  \cup { _create_session_key(i.device_id, i.session_id) : i \in ColonIds }

\* response_topic_template.format(device_id=...): "iot/{device_id}/audio_response"
ResponseTopic(device_id) == <<"iot/">> \o device_id \o <<"/audio_response">>

\* ------------------------------------------------ messages.py: the codec
\* base64 text is a sequence of characters: 0..63 are the alphabet (by value),
\* Pad is "=", and NonAlphabet stands for any character outside the alphabet.
Pad == 64
NonAlphabet == 65

\* base64.b64encode of one group of up to three bytes.
EncodeGroup(g) ==
  CASE Len(g) = 3 ->
         LET n == g[1] * 65536 + g[2] * 256 + g[3] IN
         << n \div 262144, (n \div 4096) % 64, (n \div 64) % 64, n % 64 >>
    [] Len(g) = 2 ->
         LET n == (g[1] * 256 + g[2]) * 4 IN
         << n \div 4096, (n \div 64) % 64, n % 64, Pad >>
    [] Len(g) = 1 ->
         LET n == g[1] * 16 IN
         << n \div 64, n % 64, Pad, Pad >>
    [] OTHER -> << >>

RECURSIVE b64encode(_)
\* base64.b64encode(bytes).decode()
b64encode(bytes) ==
  IF Len(bytes) <= 3 THEN EncodeGroup(bytes)
  ELSE EncodeGroup(SubSeq(bytes, 1, 3)) \o b64encode(SubSeq(bytes, 4, Len(bytes)))

\* The bytes of one group of four characters.
DecodeGroup(q) ==
  CASE q[3] = Pad -> << (q[1] * 64 + q[2]) \div 16 >>
    [] q[4] = Pad ->
         LET n == (q[1] * 4096 + q[2] * 64 + q[3]) \div 4 IN << n \div 256, n % 256 >>
    [] OTHER ->
         LET n == q[1] * 262144 + q[2] * 4096 + q[3] * 64 + q[4] IN
         << n \div 65536, (n \div 256) % 256, n % 256 >>

RECURSIVE DecodeGroups(_)
DecodeGroups(text) ==
  IF text = << >> THEN << >>
  ELSE DecodeGroup(SubSeq(text, 1, 4)) \o DecodeGroups(SubSeq(text, 5, Len(text)))

\* base64.b64decode(text) with validate=False: characters outside the alphabet
\* are discarded, then a length that is no multiple of four raises
\* binascii.Error ("Incorrect padding").  The result is the bytes, or the
\* exception raised.
b64decode(text) ==
  LET kept == SelectSeq(text, LAMBDA c : c # NonAlphabet) IN
  IF Len(kept) % 4 # 0 THEN [raised |-> "binascii.Error"]
  ELSE [bytes |-> DecodeGroups(kept)]

\* Whether a call ended in an exception.
Raises(result) == "raised" \in DOMAIN result

\* Whether b64decode raises on the text.
B64Raises(text) == Raises(b64decode(text))

\* class MessageType(Enum): wire value -> member.
MessageTypeMembers ==
  [audio_request |-> "MessageType.AUDIO_REQUEST",
   audio_response |-> "MessageType.AUDIO_RESPONSE",
   health_check |-> "MessageType.HEALTH_CHECK",
   error |-> "MessageType.ERROR",
   session_start |-> "MessageType.SESSION_START",
   session_end |-> "MessageType.SESSION_END"]

\* MessageType(value)
MessageType(value) == MessageTypeMembers[value]

\* member.value
ValueOf(member) == CHOOSE v \in DOMAIN MessageTypeMembers : MessageTypeMembers[v] = member

\* The routing of parse_message (messages.py:288-297).
Route(member) ==
  CASE member = "MessageType.AUDIO_REQUEST"  -> "AudioRequestMessage"
    [] member = "MessageType.AUDIO_RESPONSE" -> "AudioResponseMessage"
    [] member = "MessageType.ERROR"          -> "ErrorMessage"
    [] member = "MessageType.HEALTH_CHECK"   -> "HealthCheckMessage"
    [] OTHER                                 -> "AudioMessage"

\* Dataclass fields without a default.
EnvelopeFields == {"message_id", "device_id", "timestamp", "message_type", "session_id"}

RequiredFields(class) ==
  CASE class \in {"AudioRequestMessage", "AudioResponseMessage"} ->
         EnvelopeFields \cup {"audio_data", "audio_metadata"}
    [] class = "ErrorMessage" -> EnvelopeFields \cup {"error_code", "error_message"}
    [] OTHER -> EnvelopeFields

\* Dataclass fields with a default, and the default (None is "None").
Defaults(class) ==
  CASE class = "AudioRequestMessage" ->
         [language |-> "None", voice |-> "None", instructions |-> "None", config |-> "None"]
    [] class = "AudioResponseMessage" ->
         [transcript |-> "", processing_time_ms |-> 0, cost_estimate |-> 0,
          response_metadata |-> "None"]
    [] class = "ErrorMessage" -> [original_message_id |-> "None"]
    [] class = "HealthCheckMessage" ->
         [status |-> "healthy", uptime_seconds |-> 0, active_sessions |-> 0,
          system_info |-> "None"]
    [] OTHER -> << >>

\* The message_type each subclass forces in __post_init__; AudioMessage keeps
\* the one it was given.
OwnType(class, given) ==
  CASE class = "AudioRequestMessage"  -> "MessageType.AUDIO_REQUEST"
    [] class = "AudioResponseMessage" -> "MessageType.AUDIO_RESPONSE"
    [] class = "ErrorMessage"         -> "MessageType.ERROR"
    [] class = "HealthCheckMessage"   -> "MessageType.HEALTH_CHECK"
    [] OTHER                          -> given

\* Variant of Accepts: only missing arguments are refused.
Accepts_extra_keys(class, keys) == RequiredFields(class) \subseteq keys

\* Whether cls(**data) binds: every field without a default is given and no
\* other name is passed (else TypeError).  Values are not inspected.
Accepts(class, keys) ==
  /\ RequiredFields(class) \subseteq keys
  /\ keys \subseteq RequiredFields(class) \cup DOMAIN Defaults(class)

\* @dataclass AudioMetadata: every field has a default.
MetadataDefaults ==
  [format |-> "mp3", sample_rate |-> 16000, channels |-> 1, chunk_id |-> 0,
   total_chunks |-> 1, duration_ms |-> "None"]

\* `"audio_metadata" in data and isinstance(data["audio_metadata"], dict)`
HasMetadataDict(fields, ill_typed) ==
  "audio_metadata" \in DOMAIN fields /\ "audio_metadata" \notin ill_typed

\* Whether AudioMetadata(**d) binds (else TypeError).
MetadataBinds(fields, ill_typed) ==
  HasMetadataDict(fields, ill_typed) =>
    DOMAIN fields.audio_metadata.members \subseteq DOMAIN MetadataDefaults

\* Variant of ToMetadata: the nested dict is left as it is.
ToMetadata_kept(fields, ill_typed) == fields

\* from_dict of the two audio classes: a dict under "audio_metadata" becomes
\* an AudioMetadata object; any other value is left as it is.
ToMetadata(fields, ill_typed) ==
  IF HasMetadataDict(fields, ill_typed)
  THEN [fields EXCEPT !["audio_metadata"] =
          [repr |-> "AudioMetadata", members |-> @.members @@ MetadataDefaults]]
  ELSE fields

\* AudioMessage.__post_init__: a falsy message_id or timestamp is generated.
PostInit(class, fields) ==
  [fields EXCEPT
     !["message_id"] = IF @ = "" THEN "uuid4()" ELSE @,
     !["timestamp"] = IF @ = "" THEN "time()" ELSE @,
     !["message_type"] = OwnType(class, @)]

\* cls.from_dict(data) for the class parse_message routed to.
from_dict(class, doc) ==
  LET typed == [doc.fields EXCEPT !["message_type"] = MessageType(@)]
      audio == class \in {"AudioRequestMessage", "AudioResponseMessage"}
      data == IF audio THEN ToMetadata(typed, doc.ill_typed) ELSE typed
  IN
  IF audio /\ ~MetadataBinds(typed, doc.ill_typed) THEN [raised |-> "TypeError"]
  ELSE IF ~Accepts(class, DOMAIN data) THEN [raised |-> "TypeError"]
  ELSE [class |-> class, fields |-> PostInit(class, data @@ Defaults(class)),
        ill_typed |-> doc.ill_typed]

\* MessageParser.parse_message(payload): the message returned, or the
\* exception raised.  A payload is what the bytes are as text (`syntax`) and,
\* for a JSON object, its members (`fields`) and the members whose value is
\* not of the annotated type (`ill_typed`).
parse_message(payload) ==
  CASE payload.syntax = "invalid_utf8" -> [raised |-> "UnicodeDecodeError"]
    [] payload.syntax = "invalid_json" -> [raised |-> "ValueError: Invalid JSON payload"]
    [] payload.syntax # "object"       -> [raised |-> "AttributeError"]
    [] OTHER ->
         IF "message_type" \notin DOMAIN payload.fields THEN
           [raised |-> "ValueError: Missing message_type in payload"]
         ELSE IF payload.fields.message_type = "" THEN
           [raised |-> "ValueError: Missing message_type in payload"]
         ELSE IF payload.fields.message_type \notin DOMAIN MessageTypeMembers THEN
           [raised |-> "ValueError: Unknown message type"]
         ELSE from_dict(Route(MessageType(payload.fields.message_type)), payload)

\* ---- inbound payloads
AudioMetadataDict ==
  [repr |-> "dict", members |-> [format |-> "mp3", chunk_id |-> 0, total_chunks |-> 1]]

\* The JSON document of an audio request as a device sends it.
AudioRequestDoc(device_id, session_id, audio_data) ==
  [syntax |-> "object",
   fields |-> [message_id |-> "m1", device_id |-> device_id, timestamp |-> "1700.5",
               message_type |-> "audio_request", session_id |-> session_id,
               audio_data |-> audio_data, audio_metadata |-> AudioMetadataDict],
   ill_typed |-> {}]

HealthCheckDoc ==
  [syntax |-> "object",
   fields |-> [message_id |-> "m2", device_id |-> <<"d", "1">>, timestamp |-> "1700.5",
               message_type |-> "health_check", session_id |-> <<"s", "1">>,
               status |-> "healthy"],
   ill_typed |-> {}]

\* Payloads parse_message refuses: text that is no JSON, {"device_id": "d1"},
\* a message_type outside the enumeration, and an audio request without
\* audio_data.
InvalidJsonDoc == [syntax |-> "invalid_json", fields |-> << >>, ill_typed |-> {}]
MissingKindDoc ==
  [syntax |-> "object", fields |-> [device_id |-> <<"d", "1">>], ill_typed |-> {}]
UnknownKindDoc ==
  [HealthCheckDoc EXCEPT !.fields = [@ EXCEPT !.message_type = "bogus"]]
TruncatedRequestDoc ==
  [syntax |-> "object",
   fields |-> [message_id |-> "m1", device_id |-> <<"d", "1">>, timestamp |-> "1700.5",
               message_type |-> "audio_request", session_id |-> <<"s", "1">>,
               audio_metadata |-> AudioMetadataDict],
   ill_typed |-> {}]

UndecodableDocs == {InvalidJsonDoc, MissingKindDoc, UnknownKindDoc, TruncatedRequestDoc}

\* audio_data of the requests tried: the base64 text of one byte, and the same
\* text with its padding cut off.
AudioTexts == { b64encode(<<77>>), SubSeq(b64encode(<<77>>), 1, 2) }

\* The inbound MQTT payloads tried.
Payloads ==
  { AudioRequestDoc(d, s, a) : d \in Devices, s \in Sessions, a \in AudioTexts }
  \cup {HealthCheckDoc} \cup UndecodableDocs

\* `isinstance(message, AudioRequestMessage)` (client.py:243)
IsAudioRequest(result) ==
  IF Raises(result) THEN FALSE ELSE result.class = "AudioRequestMessage"

\* AudioMessage.to_dict: asdict(self) turns the nested AudioMetadata into a
\* dict, and the message_type member is replaced by its value.
to_dict(message) ==
  LET plain == IF HasMetadataDict(message.fields, message.ill_typed)
               THEN [message.fields EXCEPT
                       !["audio_metadata"] = [@ EXCEPT !.repr = "dict"]]
               ELSE message.fields
  IN [plain EXCEPT !["message_type"] = ValueOf(@)]

\* AudioMessage.to_json: the JSON text of to_dict.
to_json(message) ==
  [syntax |-> "object", fields |-> to_dict(message), ill_typed |-> {}]

\* Variant of AtCapacity: the capacity check left out.
AtCapacity_unchecked(sessions, max) == FALSE

\* Variant of AtCapacity: the limit compared with `>`.
AtCapacity_strict(sessions, max) == Cardinality(sessions) > max

\* `len(self._active_sessions) >= self.max_concurrent_sessions`
AtCapacity(sessions, max) == Cardinality(sessions) >= max

\* `self._active_sessions.add(session_id)`
Admit(sessions, req) == sessions \cup {req.session_id}

\* Variant of Release: the registry is emptied.
Release_clearing(sessions, req) == {}

\* Variant of Release: the `finally` block left out.
Release_skipped(sessions, req) == sessions

\* `self._active_sessions.discard(session_id)`
Release(sessions, req) == sessions \ {req.session_id}

\* ErrorMessage.create(...) as published by _send_error_response
ErrorMsg(req, code, text) ==
  [message_type |-> "error", topic |-> ResponseTopic(req.device_id),
   device_id |-> req.device_id, session_id |-> req.session_id,
   error_code |-> code, error_message |-> text]

\* AudioResponseMessage.create(...) as published by _send_audio_response
AudioResponseMsg(req, chunk) ==
  [message_type |-> "audio_response", topic |-> ResponseTopic(req.device_id),
   device_id |-> req.device_id, session_id |-> req.session_id,
   chunk_id |-> chunk.chunk_id, payload |-> chunk.payload]

\* Variant of Publish: the newest message overtakes the earlier ones.
Publish_overtaking(log, msg) == <<msg>> \o log

\* mqtt_client.publish(topic, ...): the broker sees messages in call order
Publish(log, msg) == Append(log, msg)

\* Variant of Bump: a counter of one bit, which wraps.
Bump_wrapping(stats, counter) == [stats EXCEPT ![counter] = (@ + 1) % 2]

\* `self._message_stats[counter] += 1`
Bump(stats, counter) == [stats EXCEPT ![counter] = @ + 1]

\* ------------------------------------------------------------------ Init
ServerInit ==
  /\ max_concurrent_sessions \in Capacities
  /\ active_sessions = {}
  /\ message_stats = [requests_processed |-> 0, responses_sent |-> 0, errors |-> 0]
  /\ svc_sessions = [k \in SessionKeys |-> 0]
  /\ ws_state = [c \in Handlers |-> "none"]
  /\ pc = [h \in Handlers |-> "idle"]
  /\ request = [h \in Handlers |-> NoRequest]
  /\ websocket = [h \in Handlers |-> 0]
  /\ chunk_id = [h \in Handlers |-> 0]
  /\ outcome = [h \in Handlers |-> "none"]
  /\ delivered = [h \in Handlers |-> 0]
  /\ publish_failures = 0
  /\ published = [h \in Handlers |-> <<>>]

\* Codec variables before anything was created, sent or parsed.
NoMessage == [class |-> "none"]
NoDoc == [syntax |-> "none", fields |-> << >>, ill_typed |-> {}]
Pending == [pending |-> TRUE]

CodecIdle ==
  /\ audio_bytes = << >>
  /\ created = NoMessage
  /\ wire = NoDoc
  /\ decoded = Pending
  /\ recovered = Pending

\* No frame was sent or received yet.
WireIdle == wire_log = [h \in Handlers |-> << >>]

\* No connection was attempted yet.
NoAttempts == [tried |-> << >>, result |-> "pending", error |-> "none"]

ConnectIdle == connect_log = [h \in Handlers |-> NoAttempts]

\* _health_check_task at a position where its locals hold nothing.
HealthAt(at) == [at |-> at, ai_healthy |-> TRUE, status |-> "none"]

\* No health message yet.
NoHealth == [status |-> "none", active_sessions |-> 0]

\* start() has returned: _running is set and the health task waits for its
\* first turn.
\* The position of _session_cleanup_task (client.py:393-405) and the count of
\* its last logger.debug, 0 when it logged nothing.
CleanupAt(at, logged) == [at |-> at, logged |-> logged]

\* health_check() is not running and has not run.
NoProbe == [at |-> "idle", tried |-> << >>, ws |-> "none", result |-> "pending"]

Started ==
  /\ running = TRUE
  /\ health_pc = HealthAt("loop")
  /\ health_published = NoHealth
  /\ cleanup_pc = CleanupAt("loop", 0)
  /\ probe = NoProbe

\* What the backend has emitted for a caller's response.create.
NothingEmitted == [deltas |-> 0, errors |-> 0, ended |-> FALSE]

\* No connection carries anything and no caller has read anything.
BackendIdle ==
  backend = [inbox |-> [w \in Handlers |-> << >>],
             emitted |-> [h \in Handlers |-> NothingEmitted],
             read |-> [h \in Handlers |-> << >>]]

Init == ServerInit /\ CodecIdle /\ WireIdle /\ ConnectIdle /\ Started /\ BackendIdle

\* --------------------------------------------------- backend wire events
\* What one `await asyncio.wait_for(websocket.recv(), timeout=30)` can give:
\* a JSON event, or an exception raised in the receive loop.
DeltaTypes == {"response.audio.delta", "response.audio_transcript.delta"}

BackendEvents ==
  [type : DeltaTypes, has_delta : BOOLEAN]
  \cup
  [type : {"response.done", "error", "other", "recv_timeout", "recv_closed",
           "recv_garbage"},
   has_delta : {FALSE}]

\* A backend event that carries content: a delta whose "delta" field is not empty.
IsContentDelta(ev) == ev.type \in DeltaTypes /\ ev.has_delta

\* The exception, if any, raised inside the `try` of _receive_audio_responses.
RaisedInReceive(ev) ==
  CASE ev.type = "error"        -> "AIServiceProcessingError"
    [] ev.type = "recv_timeout" -> "TimeoutError"
    [] ev.type = "recv_closed"  -> "ConnectionClosed"
    [] ev.type = "recv_garbage" -> "JSONDecodeError"
    [] OTHER                    -> "none"

\* Subclasses of Exception among the above (all of them are).
ExceptionClasses ==
  {"AIServiceProcessingError", "TimeoutError", "ConnectionClosed", "JSONDecodeError"}

\* `except asyncio.TimeoutError:` then `except Exception:` of
\* _receive_audio_responses: both only log, so the generator returns normally.
CaughtInReceive(exc) == exc = "TimeoutError" \/ exc \in ExceptionClasses

\* Variant of Yields: the transcript branch left out.
Yields_audio_only(ev) == ev.type = "response.audio.delta" /\ ev.has_delta

\* Whether the receive loop yields a chunk for the event: the two delta
\* branches, each under `if audio_base64:` / `if transcript:`.
Yields(ev) ==
  \/ ev.type = "response.audio.delta" /\ ev.has_delta
  \/ ev.type = "response.audio_transcript.delta" /\ ev.has_delta

\* Whether the receive loop ends normally on the event.
EndsStream(ev) ==
  \/ ev.type = "response.done"
  \/ (RaisedInReceive(ev) # "none" /\ CaughtInReceive(RaisedInReceive(ev)))

\* The AudioResponse process_audio_stream yields for a chunk; `payload`
\* identifies the content of the delta it was made from.
ResponseChunk(payload, cid) == [chunk_id |-> cid, payload |-> payload]

\* `chunk_id += 1`
NextChunkId(cid) == cid + 1

\* ------------------------------------------------------ exception handling
\* process_audio_stream's `except Exception as e` (openai_realtime.py:107-114):
\* str of the exception it re-raises.
WrapError(text, has_Connection) ==
  << IF has_Connection THEN "Connection lost" ELSE "Processing failed", text >>

\* An exception leaves process_audio_stream for handler h: the service pops the
\* key, then _handle_audio_request publishes PROCESSING_ERROR, counts the error
\* and releases the session (client.py:313-320).
StreamFails(h, text, has_Connection) ==
  LET req == request[h] IN
  /\ svc_sessions' =
       [svc_sessions EXCEPT ![_create_session_key(req.device_id, req.session_id)] = 0]
  /\ published' = [published EXCEPT ![h] =
       Publish(@, ErrorMsg(req, "PROCESSING_ERROR", WrapError(text, has_Connection)))]
  /\ message_stats' = Bump(message_stats, "errors")
  /\ active_sessions' = Release(active_sessions, req)
  /\ pc' = [pc EXCEPT ![h] = "done"]
  /\ outcome' = [outcome EXCEPT ![h] = "error"]

\* ----------------------------------------------------------------- actions
\* _on_message hands the messages to the event loop in arrival order
\* (client.py:228-234): handler h is the task of the h-th message.
Arrives(h) == pc[h] = "idle" /\ (IF h = 1 THEN TRUE ELSE pc[h - 1] # "idle")

\* The code treats device and session identifiers as opaque strings, so the
\* first message is taken to name device d1 and session s1; later messages
\* range over every device and session.
First(h, payload) ==
  h = 1 => (payload.fields.device_id = <<"d", "1">>
            /\ payload.fields.session_id = <<"s", "1">>)


\* Variant of MsgDecodeError: the failure is logged but not counted.
MsgDecodeError_uncounted(h, payload) ==
  /\ Arrives(h)
  /\ Raises(parse_message(payload))
  /\ pc' = [pc EXCEPT ![h] = "done"]
  /\ outcome' = [outcome EXCEPT ![h] = "dropped"]
  /\ UNCHANGED << codec_vars, wire_log, connect_log, lifecycle_vars, backend, max_concurrent_sessions, active_sessions, message_stats, svc_sessions,
                  ws_state, request, websocket, chunk_id, delivered, publish_failures,
                  published >>

\* _handle_message: parse_message raises (client.py:248-250).
MsgDecodeError(h, payload) ==
  /\ Arrives(h)
  /\ Raises(parse_message(payload))
  /\ message_stats' = Bump(message_stats, "errors")
  /\ pc' = [pc EXCEPT ![h] = "done"]
  /\ outcome' = [outcome EXCEPT ![h] = "dropped"]
  /\ UNCHANGED << codec_vars, wire_log, connect_log, lifecycle_vars, backend, max_concurrent_sessions, active_sessions, svc_sessions, ws_state,
                  request, websocket, chunk_id, delivered, publish_failures, published >>

\* _handle_message: a message that is not an AudioRequestMessage (client.py:245-246).
MsgUnsupported(h, payload) ==
  /\ Arrives(h)
  /\ ~Raises(parse_message(payload))
  /\ ~IsAudioRequest(parse_message(payload))
  /\ pc' = [pc EXCEPT ![h] = "done"]
  /\ outcome' = [outcome EXCEPT ![h] = "unsupported"]
  /\ UNCHANGED << codec_vars, wire_log, connect_log, lifecycle_vars, backend, max_concurrent_sessions, active_sessions, message_stats,
                  svc_sessions, ws_state, request, websocket, chunk_id, delivered, publish_failures,
                  published >>

\* The fields of the parsed AudioRequestMessage the handler uses.
AsRequest(payload) ==
  LET message == parse_message(payload) IN
  [device_id |-> message.fields.device_id, session_id |-> message.fields.session_id,
   audio_data |-> message.fields.audio_data]

\* _handle_audio_request, capacity branch (client.py:263-269) with its `finally`.
RequestRejected(h, payload) ==
  LET req == AsRequest(payload) IN
  /\ Arrives(h)
  /\ IsAudioRequest(parse_message(payload))
  /\ First(h, payload)
  /\ AtCapacity(active_sessions, max_concurrent_sessions)
  /\ request' = [request EXCEPT ![h] = req]
  /\ published' = [published EXCEPT ![h] =
       Publish(@, ErrorMsg(req, "CAPACITY_EXCEEDED", <<"Server at maximum capacity">>))]
  /\ active_sessions' = Release(active_sessions, req)
  /\ pc' = [pc EXCEPT ![h] = "done"]
  /\ outcome' = [outcome EXCEPT ![h] = "rejected"]
  /\ UNCHANGED << codec_vars, wire_log, connect_log, lifecycle_vars, backend, max_concurrent_sessions, message_stats, svc_sessions, ws_state,
                  websocket, chunk_id, delivered, publish_failures >>

\* _handle_audio_request: admitted, but request.get_audio_bytes() raises
\* (client.py:272-276, 313-320): the service is never entered.
RequestBadAudio(h, payload) ==
  LET req == AsRequest(payload) IN
  /\ Arrives(h)
  /\ IsAudioRequest(parse_message(payload))
  /\ First(h, payload)
  /\ ~AtCapacity(active_sessions, max_concurrent_sessions)
  /\ B64Raises(req.audio_data)
  /\ request' = [request EXCEPT ![h] = req]
  /\ published' = [published EXCEPT ![h] =
       Publish(@, ErrorMsg(req, "PROCESSING_ERROR", <<"Incorrect padding">>))]
  /\ message_stats' = Bump(message_stats, "errors")
  /\ active_sessions' = Release(Admit(active_sessions, req), req)
  /\ pc' = [pc EXCEPT ![h] = "done"]
  /\ outcome' = [outcome EXCEPT ![h] = "error"]
  /\ UNCHANGED << codec_vars, wire_log, connect_log, lifecycle_vars, backend, max_concurrent_sessions, svc_sessions, ws_state, websocket,
                  chunk_id, delivered, publish_failures >>

\* Variant of CachedOpen: close_code is not looked at.
CachedOpen_unchecked(key) == svc_sessions[key]

\* _get_or_create_session's lookup (openai_realtime.py:220-224): the cached
\* connection if the key is cached and its websocket is open, else 0.
CachedOpen(key) ==
  IF svc_sessions[key] # 0 /\ ws_state[svc_sessions[key]] = "open"
  THEN svc_sessions[key] ELSE 0

\* _handle_audio_request: admitted; runs up to the first await of
\* process_audio_stream: websockets.connect on a cache miss, websocket.send on a hit.
RequestAdmitted(h, payload) ==
  LET req == AsRequest(payload)
      hit == CachedOpen(_create_session_key(req.device_id, req.session_id))
  IN
  /\ Arrives(h)
  /\ IsAudioRequest(parse_message(payload))
  /\ First(h, payload)
  /\ ~AtCapacity(active_sessions, max_concurrent_sessions)
  /\ ~B64Raises(req.audio_data)
  /\ request' = [request EXCEPT ![h] = req]
  /\ active_sessions' = Admit(active_sessions, req)
  /\ websocket' = [websocket EXCEPT ![h] = hit]
  /\ pc' = [pc EXCEPT ![h] = IF hit # 0 THEN "send" ELSE "connect"]
  /\ UNCHANGED << codec_vars, wire_log, connect_log, lifecycle_vars, backend, max_concurrent_sessions, message_stats, svc_sessions, ws_state,
                  chunk_id, outcome, delivered, publish_failures, published >>

\* _create_websocket_connection succeeds with one of its three strategies
\* (openai_realtime.py:243-283); handler h then awaits the negotiation.
\* The connection made by handler h is websocket h.
ConnectOk(h) ==
  /\ pc[h] = "connect"
  /\ ws_state' = [ws_state EXCEPT ![h] = "open"]
  /\ websocket' = [websocket EXCEPT ![h] = h]
  /\ pc' = [pc EXCEPT ![h] = "initialize"]
  /\ UNCHANGED << codec_vars, wire_log, connect_log, lifecycle_vars, backend, max_concurrent_sessions, active_sessions, message_stats,
                  svc_sessions, request, chunk_id, outcome, delivered, publish_failures, published >>

\* All three strategies fail (openai_realtime.py:284-288).  Whether the text
\* of the last underlying error holds "Connection" depends on that error.
ConnectFail(h, has_Connection) ==
  /\ pc[h] = "connect"
  /\ StreamFails(h, "Failed to create WebSocket connection", has_Connection)
  /\ UNCHANGED << codec_vars, wire_log, connect_log, lifecycle_vars, backend, max_concurrent_sessions, ws_state, request, websocket, chunk_id,
                  delivered, publish_failures >>

\* _initialize_session gets session.created; _get_or_create_session stores
\* the session under the key (openai_realtime.py:317-324, 233-241).
InitializeOk(h) ==
  /\ pc[h] = "initialize"
  /\ ws_state[h] = "open"
  /\ svc_sessions' = [svc_sessions EXCEPT
       ![_create_session_key(request[h].device_id, request[h].session_id)] = h]
  /\ pc' = [pc EXCEPT ![h] = "send"]
  /\ UNCHANGED << codec_vars, wire_log, connect_log, lifecycle_vars, backend, max_concurrent_sessions, active_sessions, message_stats, ws_state,
                  request, websocket, chunk_id, outcome, delivered, publish_failures, published >>

InitFailures == {"not_session_created", "wait_timeout", "connection_closed"}

\* _initialize_session raises: another first message, no message within 10 s,
\* or the connection drops.  The websocket is not closed by the code.
InitializeFail(h, why) ==
  /\ pc[h] = "initialize"
  /\ ws_state' = [ws_state EXCEPT ![h] =
       IF why = "connection_closed" THEN "closed" ELSE @]
  /\ StreamFails(h, why, FALSE)
  /\ UNCHANGED << codec_vars, wire_log, connect_log, lifecycle_vars, backend, max_concurrent_sessions, request, websocket, chunk_id, delivered, publish_failures >>

\* _send_audio_data (openai_realtime.py:326-351): input_audio_buffer.append,
\* input_audio_buffer.commit and response.create are sent; the handler then
\* waits in recv().  The three sends touch nothing but the connection.
SendOk(h) ==
  /\ pc[h] = "send"
  /\ ws_state[websocket[h]] = "open"
  /\ pc' = [pc EXCEPT ![h] = "recv"]
  /\ UNCHANGED << codec_vars, wire_log, connect_log, lifecycle_vars, backend, max_concurrent_sessions, active_sessions, message_stats,
                  svc_sessions, ws_state, request, websocket, chunk_id, outcome,
                  delivered, publish_failures, published >>

\* One of the sends raises ConnectionClosed: the connection was closed, or drops now.
SendFail(h) ==
  /\ pc[h] = "send"
  /\ ws_state' = [ws_state EXCEPT ![websocket[h]] = "closed"]
  /\ StreamFails(h, "connection_closed", FALSE)
  /\ UNCHANGED << codec_vars, wire_log, connect_log, lifecycle_vars, backend, max_concurrent_sessions, request, websocket, chunk_id, delivered, publish_failures >>

\* What recv() can give handler h now.
CanReceive(h, ev) ==
  /\ pc[h] = "recv"
  /\ ev \in BackendEvents
  /\ ws_state[websocket[h]] # "open" => ev.type = "recv_closed"
  /\ IsContentDelta(ev) => delivered[h] < MaxChunks

\* The backend's count of content deltas handed to handler h.
Deliver(h, ev) ==
  delivered' = [delivered EXCEPT ![h] = IF IsContentDelta(ev) THEN @ + 1 ELSE @]

\* Variant of CountResponse: the result code is not looked at.
CountResponse_always(stats, rc) == Bump(stats, "responses_sent")

\* _send_audio_response (client.py:322-343): responses_sent counts the
\* publishes paho accepted.
CountResponse(stats, rc) ==
  IF rc = "MQTT_ERR_SUCCESS" THEN Bump(stats, "responses_sent") ELSE stats

\* A delta the loop yields for: process_audio_stream yields an AudioResponse
\* and the handler publishes it (no await suspends in between), then waits
\* for the next backend message.
RecvChunk(h, ev, rc) ==
  LET chunk == ResponseChunk(delivered[h] + 1, chunk_id[h]) IN
  /\ CanReceive(h, ev)
  /\ Yields(ev)
  /\ Deliver(h, ev)
  /\ published' = [published EXCEPT ![h] = Publish(@, AudioResponseMsg(request[h], chunk))]
  /\ rc # "MQTT_ERR_SUCCESS" => publish_failures < MaxPublishFailures
  /\ publish_failures' = IF rc = "MQTT_ERR_SUCCESS" THEN publish_failures
                          ELSE publish_failures + 1
  /\ message_stats' = CountResponse(message_stats, rc)
  /\ chunk_id' = [chunk_id EXCEPT ![h] = NextChunkId(@)]
  /\ UNCHANGED << codec_vars, wire_log, connect_log, lifecycle_vars, backend, max_concurrent_sessions, active_sessions, svc_sessions, ws_state,
                  pc, request, websocket, outcome >>

\* An empty delta or an event type the loop has no branch for: next recv().
RecvIgnored(h, ev) ==
  /\ CanReceive(h, ev)
  /\ ~Yields(ev)
  /\ RaisedInReceive(ev) = "none"
  /\ ~EndsStream(ev)
  /\ Deliver(h, ev)
  /\ UNCHANGED << codec_vars, wire_log, connect_log, lifecycle_vars, backend, max_concurrent_sessions, active_sessions, message_stats,
                  svc_sessions, ws_state, pc, request, websocket, chunk_id, outcome,
                  publish_failures, published >>

\* The receive loop is left: by `break`, or by an exception.  An exception the
\* loop's handlers catch ends the generator normally; the request then counts
\* as processed (client.py:309-310) and the session is released.
RecvEnd(h, ev) ==
  /\ CanReceive(h, ev)
  /\ ~Yields(ev)
  /\ EndsStream(ev) \/ RaisedInReceive(ev) # "none"
  /\ ws_state' = [ws_state EXCEPT ![websocket[h]] =
       IF ev.type = "recv_closed" THEN "closed" ELSE @]
  /\ IF EndsStream(ev)
     THEN /\ message_stats' = Bump(message_stats, "requests_processed")
          /\ active_sessions' = Release(active_sessions, request[h])
          /\ pc' = [pc EXCEPT ![h] = "done"]
          /\ outcome' = [outcome EXCEPT ![h] = "processed"]
          /\ UNCHANGED << svc_sessions, published >>
     ELSE StreamFails(h, RaisedInReceive(ev), FALSE)
  /\ UNCHANGED << codec_vars, wire_log, connect_log, lifecycle_vars, backend, max_concurrent_sessions, request, websocket, chunk_id, delivered, publish_failures >>

\* ------------------------------------------------------------ specification
Next ==
  \E h \in Handlers :
    \/ \E payload \in Payloads :
         \/ MsgDecodeError(h, payload)
         \/ MsgUnsupported(h, payload)
         \/ RequestRejected(h, payload)
         \/ RequestBadAudio(h, payload)
         \/ RequestAdmitted(h, payload)
    \/ ConnectOk(h)
    \/ \E has_Connection \in BOOLEAN : ConnectFail(h, has_Connection)
    \/ InitializeOk(h)
    \/ \E why \in InitFailures : InitializeFail(h, why)
    \/ SendOk(h)
    \/ SendFail(h)
    \/ \E ev \in BackendEvents :
         \/ \E rc \in {"MQTT_ERR_SUCCESS", "MQTT_ERR_NO_CONN"} : RecvChunk(h, ev, rc)
         \/ RecvIgnored(h, ev)
         \/ RecvEnd(h, ev)

Spec == Init /\ [][Next]_vars

\* ------------------------------------------------ the codec on its own
\* Longest audio, in bytes, a message is created from.
MaxAudioBytes == 3

ByteValues == {0, 77, 255}
ByteStrings == UNION { [1..n -> ByteValues] : n \in 0..MaxAudioBytes }

\* AudioRequestMessage.get_audio_bytes / AudioResponseMessage.get_audio_bytes
get_audio_bytes(message) ==
  IF "audio_data" \in message.ill_typed THEN [raised |-> "TypeError"]
  ELSE b64decode(message.fields.audio_data)

\* AudioMetadata(format=..., chunk_id=..., total_chunks=...)
NewMetadata(format, chunk, total) ==
  [repr |-> "AudioMetadata",
   members |-> [format |-> format, chunk_id |-> chunk, total_chunks |-> total]
               @@ MetadataDefaults]

\* AudioRequestMessage.create(device_id, audio_data, session_id)
CreateAudioRequest(device_id, bytes, session_id) ==
  [class |-> "AudioRequestMessage",
   fields |-> [message_id |-> "uuid4()", device_id |-> device_id, timestamp |-> "time()",
               message_type |-> "MessageType.AUDIO_REQUEST", session_id |-> session_id,
               audio_data |-> b64encode(bytes),
               audio_metadata |-> NewMetadata("mp3", 0, 1),
               language |-> "None", voice |-> "None", instructions |-> "None",
               config |-> "{}"],
   ill_typed |-> {}]

\* AudioResponseMessage.create(request_message, audio_data, transcript, chunk_id=...)
CreateAudioResponse(request_message, bytes, transcript, chunk) ==
  [class |-> "AudioResponseMessage",
   fields |-> [message_id |-> "uuid4()", device_id |-> request_message.fields.device_id,
               timestamp |-> "time()",
               message_type |-> "MessageType.AUDIO_RESPONSE",
               session_id |-> request_message.fields.session_id,
               audio_data |-> b64encode(bytes),
               audio_metadata |->
                 NewMetadata(request_message.fields.audio_metadata.members.format, chunk, 1),
               transcript |-> transcript, processing_time_ms |-> 0, cost_estimate |-> 0,
               response_metadata |-> "None"],
   ill_typed |-> {}]

\* ErrorMessage.create(device_id, error_code, error_message, original, session_id)
CreateError(original, code, text) ==
  [class |-> "ErrorMessage",
   fields |-> [message_id |-> "uuid4()", device_id |-> original.fields.device_id,
               timestamp |-> "time()", message_type |-> "MessageType.ERROR",
               session_id |-> original.fields.session_id,
               error_code |-> code, error_message |-> text,
               original_message_id |-> original.fields.message_id],
   ill_typed |-> {}]

\* MQTTAIServer._create_health_message (client.py:407-425)
CreateHealthCheck(status) ==
  [class |-> "HealthCheckMessage",
   fields |-> [message_id |-> "uuid4()", device_id |-> <<"server">>, timestamp |-> "time()",
               message_type |-> "MessageType.HEALTH_CHECK", session_id |-> << >>,
               status |-> status, uptime_seconds |-> 0, active_sessions |-> 0,
               system_info |-> "{...}"],
   ill_typed |-> {}]

\* The messages built from the audio `bytes`.
Creatable(bytes) ==
  LET req == CreateAudioRequest(<<"d", "1">>, bytes, <<"s", "1">>) IN
  { req, CreateAudioResponse(req, bytes, "hello", 1) }
  \cup (IF bytes = << >>
        THEN { CreateError(req, "PROCESSING_ERROR", "Incorrect padding"),
               CreateHealthCheck("healthy") }
        ELSE {})

\* ---- payloads as devices may send them: valid documents and their variations
SessionStartDoc ==
  [syntax |-> "object",
   fields |-> [message_id |-> "m3", device_id |-> <<"d", "1">>, timestamp |-> "1700.5",
               message_type |-> "session_start", session_id |-> <<"s", "1">>],
   ill_typed |-> {}]

ValidDocs ==
  { AudioRequestDoc(<<"d", "1">>, <<"s", "1">>, b64encode(<<77>>)),
    HealthCheckDoc, SessionStartDoc }
  \cup { to_json(m) : m \in Creatable(<< >>) }

Classes ==
  {"AudioRequestMessage", "AudioResponseMessage", "ErrorMessage", "HealthCheckMessage",
   "AudioMessage"}

MemberNames == UNION { RequiredFields(c) \cup DOMAIN Defaults(c) : c \in Classes }

Tags == DOMAIN MessageTypeMembers \cup {"bogus", ""}

\* A value of the annotated type for each member name.
Samples ==
  [message_id |-> "m9", device_id |-> <<"d", "2">>, timestamp |-> "1700.5",
   message_type |-> "audio_request", session_id |-> <<"s", "2">>,
   audio_data |-> << >>, audio_metadata |-> AudioMetadataDict,
   language |-> "en", voice |-> "alloy", instructions |-> "brief", config |-> "{}",
   transcript |-> "hi", processing_time_ms |-> 0, cost_estimate |-> 0,
   response_metadata |-> "{}", error_code |-> "E", error_message |-> "text",
   original_message_id |-> "m0", status |-> "ok", uptime_seconds |-> 0,
   active_sessions |-> 0, system_info |-> "{}"]

Without(doc, k) == [doc EXCEPT !.fields = [x \in DOMAIN doc.fields \ {k} |-> doc.fields[x]]]
WithMember(doc, k) == [doc EXCEPT !.fields = doc.fields @@ (k :> Samples[k])]
Retag(doc, t) == [doc EXCEPT !.fields = [@ EXCEPT !["message_type"] = t]]
\* The member k carries a value of another JSON type than the field is
\* annotated with (a number for audio_data, a string for audio_metadata, ...);
\* what `fields` holds for it is not looked at.
IllTyped(doc, k) ==
  IF k \in DOMAIN doc.fields THEN [doc EXCEPT !.ill_typed = @ \cup {k}] ELSE doc
WithAudio(doc, text) == [doc EXCEPT !.fields = [@ EXCEPT !["audio_data"] = text]]

\* base64 texts of odd shape: padding cut off, and a character outside the
\* alphabet inside an otherwise valid text.
OddTexts ==
  { SubSeq(b64encode(<<77>>), 1, 2),
    <<b64encode(<<77>>)[1], NonAlphabet>> \o SubSeq(b64encode(<<77>>), 2, 4) }

WireDocs ==
  ValidDocs
  \cup { [syntax |-> x, fields |-> << >>, ill_typed |-> {}] :
           x \in {"invalid_utf8", "invalid_json", "array"} }
  \cup { Without(doc, k) : doc \in ValidDocs, k \in MemberNames }
  \cup { WithMember(doc, k) : doc \in ValidDocs, k \in MemberNames }
  \cup { Retag(doc, t) : doc \in ValidDocs, t \in Tags }
  \cup { IllTyped(doc, k) : doc \in ValidDocs, k \in MemberNames \ {"message_type"} }
  \cup { WithAudio(AudioRequestDoc(<<"d", "1">>, <<"s", "1">>, << >>), t) : t \in OddTexts }
  \cup UndecodableDocs

server_vars == << max_concurrent_sessions, active_sessions, message_stats, svc_sessions,
                  ws_state, pc, request, websocket, chunk_id, outcome, delivered,
                  publish_failures, published >>

\* Either a payload arrives from a device, or the program is about to create
\* a message from some audio.
InitCodec ==
  /\ ServerInit
  /\ WireIdle
  /\ ConnectIdle
  /\ Started
  /\ BackendIdle
  /\ created = NoMessage
  /\ decoded = Pending
  /\ recovered = Pending
  /\ \/ wire \in WireDocs /\ audio_bytes = << >>
     \/ wire = NoDoc /\ audio_bytes \in ByteStrings

\* X.create(...)
CodecCreate ==
  /\ wire.syntax = "none"
  /\ created.class = "none"
  /\ created' \in Creatable(audio_bytes)
  /\ UNCHANGED << server_vars, wire_log, connect_log, lifecycle_vars, backend, audio_bytes, wire, decoded, recovered >>

\* message.to_json()
CodecEncode ==
  /\ wire.syntax = "none"
  /\ created.class # "none"
  /\ wire' = to_json(created)
  /\ UNCHANGED << server_vars, wire_log, connect_log, lifecycle_vars, backend, audio_bytes, created, decoded, recovered >>

\* MessageParser.parse_message(payload)
CodecParse ==
  /\ wire.syntax # "none"
  /\ "pending" \in DOMAIN decoded
  /\ decoded' = parse_message(wire)
  /\ UNCHANGED << server_vars, wire_log, connect_log, lifecycle_vars, backend, audio_bytes, created, wire, recovered >>

\* message.get_audio_bytes()
CodecGetAudio ==
  /\ "pending" \notin DOMAIN decoded
  /\ "pending" \in DOMAIN recovered
  /\ ~Raises(decoded)
  /\ decoded.class \in {"AudioRequestMessage", "AudioResponseMessage"}
  /\ recovered' = get_audio_bytes(decoded)
  /\ UNCHANGED << server_vars, wire_log, connect_log, lifecycle_vars, backend, audio_bytes, created, wire, decoded >>

NextCodec == CodecCreate \/ CodecEncode \/ CodecParse \/ CodecGetAudio

SpecCodec == InitCodec /\ [][NextCodec]_vars

\* ------------------------------------------- the backend connection, by frame
\* OpenAIRealtimeService.process_audio_stream followed await by await, with
\* every frame that crosses the websocket recorded.  Caller h is the h-th call
\* of process_audio_stream; calls overlap as the event loop allows.

\* The AudioRequest objects handed to the service: audio_data is the bytes
\* get_audio_bytes returned, which are empty for an empty audio_data text.
\* One session key is enough: callers that find no stored session for it each
\* make a connection of their own, as callers with different keys would.  The
\* key is that of the two pairs of ColonIds: one device sends no audio, the
\* other one byte.
AudioRequests ==
  { [device_id |-> <<"a">>, session_id |-> <<"b", ":", "c">>,
     audio_data |-> (b64decode(<< >>)).bytes],
    [device_id |-> <<"a", ":", "b">>, session_id |-> <<"c">>,
     audio_data |-> (b64decode(b64encode(<<77>>))).bytes] }

client_vars == << max_concurrent_sessions, active_sessions, message_stats,
                  delivered, publish_failures, published >>

Sent(w, type) == [ws |-> w, dir |-> "sent", type |-> type]
Received(w, type) == [ws |-> w, dir |-> "received", type |-> type]

\* The three events of _send_audio_data, by the position of the coroutine.
AudioEvent ==
  [send_append |-> "input_audio_buffer.append",
   send_commit |-> "input_audio_buffer.commit",
   send_create |-> "response.create"]

\* The await that follows each send of _send_audio_data; after the last one,
\* the first recv() of _receive_audio_responses.
AfterSend ==
  [send_append |-> "send_commit", send_commit |-> "send_create", send_create |-> "recv"]

\* What the recv() of the receive loop gives in this specification: content, the
\* end of the response, a backend error, silence for 30 s, a closed connection.
ReceiveEvents ==
  { ev \in BackendEvents :
      \/ ev.type = "response.audio.delta" /\ ev.has_delta
      \/ ev.type \in {"response.done", "error", "recv_timeout", "recv_closed"} }

\* What the recv() of _initialize_session can give within its 10 s.
InitReplies == {"session.created", "error", "wait_timeout", "connection_closed"}

\* Variant of Initialized: the type of the first message is not looked at.
Initialized_any_message(reply) == reply \in {"session.created", "error"}

\* Variant of Initialized: the wait for the first message has no bound, and a
\* silent backend is taken for an acknowledgement.
Initialized_timeout_ignored(reply) == reply \in {"session.created", "wait_timeout"}

\* _initialize_session returns normally only for a first message of type
\* session.created.
Initialized(reply) == reply = "session.created"

\* The `except Exception` of process_audio_stream: the key is dropped and the
\* exception re-raised to the caller.
Reraised(h) ==
  /\ svc_sessions' = [svc_sessions EXCEPT
       ![_create_session_key(request[h].device_id, request[h].session_id)] = 0]
  /\ pc' = [pc EXCEPT ![h] = "done"]
  /\ outcome' = [outcome EXCEPT ![h] = "raised"]

\* process_audio_stream is called; it runs to its first await: the first
\* send on a cached open connection, else websockets.connect.
Process(h, req) ==
  LET hit == CachedOpen(_create_session_key(req.device_id, req.session_id)) IN
  /\ Arrives(h)
  /\ request' = [request EXCEPT ![h] = req]
  /\ websocket' = [websocket EXCEPT ![h] = hit]
  /\ pc' = [pc EXCEPT ![h] = IF hit # 0 THEN "send_append" ELSE "connect"]
  /\ UNCHANGED << codec_vars, client_vars, connect_log, lifecycle_vars, backend, wire_log, svc_sessions, ws_state,
                  chunk_id, outcome >>

\* websockets.connect succeeded; the connection made by caller h is websocket h.
Connect(h) ==
  /\ pc[h] = "connect"
  /\ ws_state' = [ws_state EXCEPT ![h] = "open"]
  /\ websocket' = [websocket EXCEPT ![h] = h]
  /\ pc' = [pc EXCEPT ![h] = "send_session_update"]
  /\ UNCHANGED << codec_vars, client_vars, connect_log, lifecycle_vars, backend, wire_log, svc_sessions, request,
                  chunk_id, outcome >>

\* All three connection strategies failed.
ConnectRaises(h) ==
  /\ pc[h] = "connect"
  /\ Reraised(h)
  /\ UNCHANGED << codec_vars, client_vars, connect_log, lifecycle_vars, backend, wire_log, ws_state, request,
                  websocket, chunk_id >>

\* _initialize_session: websocket.send(session.update).
SendSessionUpdate(h) ==
  /\ pc[h] = "send_session_update"
  /\ ws_state[websocket[h]] = "open"
  /\ wire_log' = [wire_log EXCEPT ![h] = Append(@, Sent(websocket[h], "session.update"))]
  /\ pc' = [pc EXCEPT ![h] = "await_session_created"]
  /\ UNCHANGED << codec_vars, client_vars, connect_log, lifecycle_vars, backend, svc_sessions, ws_state, request,
                  websocket, chunk_id, outcome >>

\* _initialize_session: wait_for(websocket.recv(), 10), then the type check;
\* on success _get_or_create_session stores the session under the key.
AwaitSessionCreated(h, reply) ==
  LET w == websocket[h]
      heard == IF reply \in {"session.created", "error"}
               THEN Append(wire_log[h], Received(w, reply)) ELSE wire_log[h]
  IN
  /\ pc[h] = "await_session_created"
  /\ ws_state[w] # "open" => reply = "connection_closed"
  /\ ws_state' = [ws_state EXCEPT ![w] = IF reply = "connection_closed" THEN "closed" ELSE @]
  /\ wire_log' = [wire_log EXCEPT ![h] = heard]
  /\ IF Initialized(reply)
     THEN /\ svc_sessions' = [svc_sessions EXCEPT
               ![_create_session_key(request[h].device_id, request[h].session_id)] = w]
          /\ pc' = [pc EXCEPT ![h] = "send_append"]
          /\ UNCHANGED outcome
     ELSE Reraised(h)
  /\ UNCHANGED << codec_vars, client_vars, connect_log, lifecycle_vars, backend, request, websocket, chunk_id >>

\* One websocket.send of _send_audio_data.  Nothing about audio_data is
\* looked at before the first of them.
SendAudioEvent(h) ==
  /\ pc[h] \in DOMAIN AudioEvent
  /\ ws_state[websocket[h]] = "open"
  /\ wire_log' = [wire_log EXCEPT ![h] = Append(@, Sent(websocket[h], AudioEvent[pc[h]]))]
  /\ pc' = [pc EXCEPT ![h] = AfterSend[pc[h]]]
  /\ UNCHANGED << codec_vars, client_vars, connect_log, lifecycle_vars, backend, svc_sessions, ws_state, request,
                  websocket, chunk_id, outcome >>

\* A websocket.send raises ConnectionClosed: the connection was closed, or
\* drops now.
SendRaises(h) ==
  /\ pc[h] \in DOMAIN AudioEvent \cup {"send_session_update"}
  /\ ws_state' = [ws_state EXCEPT ![websocket[h]] = "closed"]
  /\ Reraised(h)
  /\ UNCHANGED << codec_vars, client_vars, connect_log, lifecycle_vars, backend, wire_log, request, websocket, chunk_id >>

\* The frames caller h has read in its receive loop.
Reads(h) == SelectSeq(wire_log[h], LAMBDA f : f.dir = "received" /\ f.type # "session.created")

\* One recv() of _receive_audio_responses and the branch taken on it: a chunk
\* is yielded (chunk_id += 1), the event is skipped, or the loop ends; the
\* loop's handlers swallow every exception, so the generator returns.
Receive(h, ev) ==
  LET w == websocket[h]
      heard == IF RaisedInReceive(ev) \in {"TimeoutError", "ConnectionClosed"}
               THEN wire_log[h] ELSE Append(wire_log[h], Received(w, ev.type))
  IN
  /\ pc[h] = "recv"
  /\ ws_state[w] # "open" => ev.type = "recv_closed"
  /\ ws_state' = [ws_state EXCEPT ![w] = IF ev.type = "recv_closed" THEN "closed" ELSE @]
  /\ ~EndsStream(ev) => Len(Reads(h)) < MaxChunks
  /\ wire_log' = [wire_log EXCEPT ![h] = heard]
  /\ chunk_id' = [chunk_id EXCEPT ![h] = IF Yields(ev) THEN NextChunkId(@) ELSE @]
  /\ pc' = [pc EXCEPT ![h] = IF EndsStream(ev) THEN "done" ELSE @]
  /\ outcome' = [outcome EXCEPT ![h] = IF EndsStream(ev) THEN "returned" ELSE @]
  /\ UNCHANGED << codec_vars, client_vars, connect_log, lifecycle_vars, backend, svc_sessions, request, websocket >>

NextBackend ==
  \E h \in Handlers :
       \/ \E req \in AudioRequests : Process(h, req)
       \/ Connect(h)
       \/ ConnectRaises(h)
       \/ SendSessionUpdate(h)
       \/ \E reply \in InitReplies : AwaitSessionCreated(h, reply)
       \/ SendAudioEvent(h)
       \/ SendRaises(h)
       \/ \E ev \in ReceiveEvents : Receive(h, ev)

\* The client side is left out of this specification.
InitBackend == Init /\ max_concurrent_sessions = 1

SpecBackend == InitBackend /\ [][NextBackend]_vars

\* ------------------------------------------ what is waiting on a connection
\* recv() gives the events in the order the backend put them on the
\* connection, whoever calls it; the code keeps no response id and empties
\* nothing before it sends.  Here the events carry the caller whose
\* response.create they answer.

\* Caller h has sent response.create on the connection it uses.
Requested(h) ==
  websocket[h] # 0 /\ Sent(websocket[h], "response.create") \in Range(wire_log[h])

EmittedTypes == {"response.audio.delta", "error", "response.done"}

\* The backend puts the next event of its answer to caller h on h's
\* connection: at most MaxChunks deltas and one error event, then
\* response.done.  It does so whether or not h is still reading.
BackendEmits(h, type) ==
  LET w == websocket[h]
      e == backend.emitted[h]
  IN
  /\ Requested(h)
  /\ ws_state[w] = "open"
  /\ ~e.ended
  /\ type \in EmittedTypes
  /\ type = "response.audio.delta" => e.deltas < MaxChunks
  /\ type = "error" => e.errors = 0
  /\ backend' =
       [backend EXCEPT
          !.inbox[w] = Append(@, [type |-> type, for |-> h]),
          !.emitted[h] =
            [deltas |-> IF type = "response.audio.delta" THEN e.deltas + 1 ELSE e.deltas,
             errors |-> IF type = "error" THEN 1 ELSE e.errors,
             ended |-> type = "response.done"]]
  /\ UNCHANGED << codec_vars, client_vars, connect_log, lifecycle_vars, wire_log,
                  svc_sessions, ws_state, pc, request, websocket, chunk_id, outcome >>

\* The event of BackendEvents a queued event is received as; a queued delta
\* has content.
AsReceived(queued) ==
  [type |-> queued.type, has_delta |-> queued.type = "response.audio.delta"]

\* One recv() of _receive_audio_responses that returns at once: the first
\* event waiting on the connection, and the branch taken on it.
ReceiveQueued(h) ==
  LET w == websocket[h]
      queued == Head(backend.inbox[w])
      ev == AsReceived(queued)
  IN
  /\ pc[h] = "recv"
  /\ ws_state[w] = "open"
  /\ backend.inbox[w] # << >>
  /\ backend' = [backend EXCEPT !.inbox[w] = Tail(@),
                                !.read[h] = Append(@, queued)]
  /\ wire_log' = [wire_log EXCEPT ![h] = Append(@, Received(w, ev.type))]
  /\ chunk_id' = [chunk_id EXCEPT ![h] = IF Yields(ev) THEN NextChunkId(@) ELSE @]
  /\ pc' = [pc EXCEPT ![h] = IF EndsStream(ev) THEN "done" ELSE @]
  /\ outcome' = [outcome EXCEPT ![h] = IF EndsStream(ev) THEN "returned" ELSE @]
  /\ UNCHANGED << codec_vars, client_vars, connect_log, lifecycle_vars, svc_sessions,
                  ws_state, request, websocket >>

\* Nothing arrives within the 30 s of wait_for: TimeoutError, which the
\* generator catches; it returns and the session stays in the cache.
ReceiveTimesOut(h) ==
  /\ pc[h] = "recv"
  /\ ws_state[websocket[h]] = "open"
  /\ backend.inbox[websocket[h]] = << >>
  /\ pc' = [pc EXCEPT ![h] = "done"]
  /\ outcome' = [outcome EXCEPT ![h] = "returned"]
  /\ UNCHANGED << codec_vars, client_vars, connect_log, lifecycle_vars, backend,
                  wire_log, svc_sessions, ws_state, request, websocket, chunk_id >>

\* The device sends its next request when the one before has been answered:
\* the calls on the key follow one another.
ProcessNext(h, req) ==
  /\ \A g \in Handlers : pc[g] \in {"idle", "done"}
  /\ Process(h, req)

NextInbound ==
  \/ \E h \in Handlers :
       \/ \E req \in AudioRequests : ProcessNext(h, req)
       \/ Connect(h)
       \/ SendSessionUpdate(h)
       \/ AwaitSessionCreated(h, "session.created")
       \/ SendAudioEvent(h)
       \/ ReceiveQueued(h)
       \/ ReceiveTimesOut(h)
  \/ \E h \in Handlers, type \in EmittedTypes : BackendEmits(h, type)

SpecInbound == InitBackend /\ [][NextInbound]_vars

\* -------------------------------------- making a connection, try by try
\* OpenAIRealtimeService._create_websocket_connection followed through its
\* three websockets.connect calls.  Caller h is the h-th call of it.

\* The ways of passing the authentication headers, in program order.
Strategies == << "additional_headers", "extra_headers", "basic" >>

\* What a websockets.connect call can raise: the keyword is not supported by
\* the installed websockets (TypeError), the handshake is refused, or the
\* host is not reached.  The basic call passes no keyword.
ConnectErrors(strategy) ==
  IF strategy = "basic" THEN {"InvalidStatus", "ConnectionRefused"}
  ELSE {"TypeError", "InvalidStatus", "ConnectionRefused"}

\* Variant of LastError: the error of the first strategy is kept.
LastError_first(tried) == tried[1].error

\* `connection_error`, assigned in every except block: the error of the
\* latest strategy that failed.
LastError(tried) == tried[Len(tried)].error

\* The strategy the call is about to try.
Upcoming(h) == Strategies[Len(connect_log[h].tried) + 1]

\* _create_websocket_connection is called.
CallConnect(h) ==
  /\ Arrives(h)
  /\ pc' = [pc EXCEPT ![h] = "connect"]
  /\ UNCHANGED << codec_vars, client_vars, lifecycle_vars, backend, wire_log, connect_log,
                  svc_sessions, ws_state, request, websocket, chunk_id, outcome >>

\* The websockets.connect of the upcoming strategy completes its handshake:
\* the websocket is returned at once.
StrategyConnects(h) ==
  /\ pc[h] = "connect"
  /\ connect_log' = [connect_log EXCEPT ![h] =
       [tried |-> Append(@.tried, [strategy |-> Upcoming(h), error |-> "none"]),
        result |-> "connected", error |-> "none"]]
  /\ ws_state' = [ws_state EXCEPT ![h] = "open"]
  /\ websocket' = [websocket EXCEPT ![h] = h]
  /\ pc' = [pc EXCEPT ![h] = "done"]
  /\ outcome' = [outcome EXCEPT ![h] = "returned"]
  /\ UNCHANGED << codec_vars, client_vars, lifecycle_vars, backend, wire_log,
                  svc_sessions, request, chunk_id >>

\* The websockets.connect of the upcoming strategy raises: the except block
\* keeps the error and the next strategy follows; after the last strategy
\* AIServiceConnectionError is raised with the error kept.
StrategyFails(h, error) ==
  LET tried == Append(connect_log[h].tried, [strategy |-> Upcoming(h), error |-> error])
      last == Len(tried) = Len(Strategies)
  IN
  /\ pc[h] = "connect"
  /\ error \in ConnectErrors(Upcoming(h))
  /\ connect_log' = [connect_log EXCEPT ![h] =
       IF last THEN [tried |-> tried, result |-> "raised", error |-> LastError(tried)]
       ELSE [@ EXCEPT !.tried = tried]]
  /\ pc' = [pc EXCEPT ![h] = IF last THEN "done" ELSE @]
  /\ outcome' = [outcome EXCEPT ![h] = IF last THEN "raised" ELSE @]
  /\ UNCHANGED << codec_vars, client_vars, lifecycle_vars, backend, wire_log,
                  svc_sessions, ws_state, request, websocket, chunk_id >>

NextConnect ==
  \E h \in Handlers :
    \/ CallConnect(h)
    \/ StrategyConnects(h)
    \/ \E error \in ConnectErrors("additional_headers") : StrategyFails(h, error)

SpecConnect == InitBackend /\ [][NextConnect]_vars

\* ------------------------------------------------- the server's life cycle
\* Message handling as above, with the health task, stop() and get_stats()
\* running beside it.  The traffic is that of one device.

LifecyclePayloads ==
  { AudioRequestDoc(<<"d", "1">>, s, a) : s \in Sessions, a \in AudioTexts }
  \cup {HealthCheckDoc, InvalidJsonDoc}

handler_vars == << active_sessions, message_stats, svc_sessions, ws_state, pc,
                   request, websocket, chunk_id, outcome, delivered,
                   publish_failures, published >>

\* Variant of Status: the result of the check is not looked at.
Status_always_healthy(ai_healthy) == "healthy"

\* `status = "healthy" if ai_healthy else "degraded"`
Status(ai_healthy) == IF ai_healthy THEN "healthy" ELSE "degraded"

\* _create_health_message(status): the fields of the HealthCheckMessage that
\* depend on the server's state.
HealthMsg(status) ==
  [status |-> status, active_sessions |-> Cardinality(active_sessions)]

\* The positions where the task is about to test `while self._running`.
AtLoopTest == health_pc.at \in {"loop", "sleep", "sleep_after_error"}

\* The loop test passes and health_check() is awaited.
HealthBegins ==
  /\ AtLoopTest
  /\ running
  /\ health_pc' = HealthAt("checking")
  /\ health_published' = NoHealth
  /\ UNCHANGED << codec_vars, wire_log, connect_log, backend, probe, handler_vars,
                  max_concurrent_sessions, running, cleanup_pc >>

\* The loop test fails: the task ends.
HealthExits ==
  /\ AtLoopTest
  /\ ~running
  /\ health_pc' = HealthAt("exited")
  /\ UNCHANGED << codec_vars, wire_log, connect_log, backend, probe, handler_vars,
                  max_concurrent_sessions, running, health_published, cleanup_pc >>

\* health_check() returns True or False: it catches every exception of its
\* own connection and test, and closes its websocket before it returns.  With
\* no await in between, the message is made and handed to
\* mqtt_client.publish on the health topic; the task sleeps.
HealthPublishes(ai_healthy) ==
  /\ health_pc.at = "checking"
  /\ health_published' = HealthMsg(Status(ai_healthy))
  /\ health_pc' = [at |-> "sleep", ai_healthy |-> ai_healthy,
                   status |-> Status(ai_healthy)]
  /\ UNCHANGED << codec_vars, wire_log, connect_log, backend, probe, handler_vars,
                  max_concurrent_sessions, running, cleanup_pc >>

\* Variant of HealthRaises: the failure is counted with the devices' errors.
HealthRaises_counted ==
  /\ health_pc.at = "checking"
  /\ health_pc' = HealthAt("sleep_after_error")
  /\ message_stats' = Bump(message_stats, "errors")
  /\ UNCHANGED << codec_vars, wire_log, connect_log, backend, probe, max_concurrent_sessions,
                  active_sessions, svc_sessions, ws_state, pc, request, websocket,
                  chunk_id, outcome, delivered, publish_failures, published,
                  running, health_published, cleanup_pc >>

\* health_check() has returned and making or publishing the message raises:
\* `except Exception` logs it and the task sleeps.
HealthRaises ==
  /\ health_pc.at = "checking"
  /\ health_pc' = HealthAt("sleep_after_error")
  /\ UNCHANGED << codec_vars, wire_log, connect_log, backend, probe, handler_vars,
                  max_concurrent_sessions, running, health_published, cleanup_pc >>

\* OpenAIRealtimeService.cleanup: every stored websocket that is open is
\* closed.
Cleanup(states) ==
  [w \in DOMAIN states |->
     IF states[w] = "open" /\ \E k \in DOMAIN svc_sessions : svc_sessions[k] = w
     THEN "closed" ELSE states[w]]

\* stop(): _running is cleared, the MQTT client is disconnected and the
\* service is cleaned up: stored websockets closed, the dict cleared.  Tasks
\* are not cancelled.
Stop ==
  /\ running' = FALSE
  /\ ws_state' = Cleanup(ws_state)
  /\ svc_sessions' = [k \in DOMAIN svc_sessions |-> 0]
  /\ UNCHANGED << codec_vars, wire_log, connect_log, backend, probe, max_concurrent_sessions,
                  active_sessions, message_stats, pc, request, websocket, chunk_id,
                  outcome, delivered, publish_failures, published, health_pc,
                  health_published, cleanup_pc >>

\* get_stats(): a dict made of copies; nothing is written.
GetStats == UNCHANGED vars

\* A message is delivered by the broker only while the client is connected.
Handles(h) ==
  \/ /\ running
     /\ \E payload \in LifecyclePayloads :
          \/ MsgDecodeError(h, payload)
          \/ MsgUnsupported(h, payload)
          \/ RequestRejected(h, payload)
          \/ RequestBadAudio(h, payload)
          \/ RequestAdmitted(h, payload)
  \/ ConnectOk(h)
  \/ \E has_Connection \in BOOLEAN : ConnectFail(h, has_Connection)
  \/ InitializeOk(h)
  \/ \E why \in InitFailures : InitializeFail(h, why)
  \/ SendOk(h)
  \/ SendFail(h)
  \/ \E ev \in ReceiveEvents :
       \/ \E rc \in {"MQTT_ERR_SUCCESS", "MQTT_ERR_NO_CONN"} : RecvChunk(h, ev, rc)
       \/ RecvEnd(h, ev)

NextLifecycle ==
  \/ \E h \in Handlers : Handles(h)
  \/ HealthBegins
  \/ HealthExits
  \/ \E ai_healthy \in BOOLEAN : HealthPublishes(ai_healthy)
  \/ HealthRaises
  \/ Stop
  \/ GetStats

\* One session at a time is admitted.
InitLifecycle == Init /\ max_concurrent_sessions = 1

SpecLifecycle == InitLifecycle /\ [][NextLifecycle]_vars

\* ===================================================================
\* Properties
\* ===================================================================
DoneEvent == [type |-> "response.done", has_delta |-> FALSE]
ErrorEvent == [type |-> "error", has_delta |-> FALSE]

\* Handler h is between admission and the end of its handling.
AdmittedInFlight(h) == pc[h] \in {"connect", "initialize", "send", "recv"}

\* Handler h is sending to, or receiving from, a backend connection.
Driving(h) == pc[h] \in {"send", "recv"}

NoneInFlight == \A h \in Handlers : ~AdmittedInFlight(h)

SameKey(g, h) ==
  /\ request[g].device_id = request[h].device_id
  /\ request[g].session_id = request[h].session_id

\* The (device, session) pair is held by a request that was admitted and has
\* not finished.
KeyHeld(device_id, session_id) ==
  \E g \in Handlers :
    /\ AdmittedInFlight(g)
    /\ request[g].device_id = device_id
    /\ request[g].session_id = session_id
    /\ session_id \in active_sessions

\* This step is the start of handler h on the audio request `payload`.
Starts(h, payload) ==
  /\ pc[h] = "idle"
  /\ pc'[h] # "idle"
  /\ IsAudioRequest(parse_message(payload))
  /\ request'[h] = AsRequest(payload)

IsCapacityError(msg, device_id, session_id) ==
  /\ msg.message_type = "error"
  /\ msg.error_code = "CAPACITY_EXCEEDED"
  /\ msg.topic = <<"iot/">> \o device_id \o <<"/audio_response">>
  /\ msg.device_id = device_id
  /\ msg.session_id = session_id

\* C1: in every reachable state, under every interleaving of request
\* handlers, the registry holds at most max_concurrent_sessions keys.
C1_AdmissionInvariant == Cardinality(active_sessions) <= max_concurrent_sessions

\* C1 witness: the registry is full and a request has been rejected for it.
C1_Witness ==
  /\ Cardinality(active_sessions) = max_concurrent_sessions
  /\ \E g, h \in Handlers : AdmittedInFlight(g) /\ outcome[h] = "rejected"

\* C2: a request whose (device, session) key is held in the registry is
\* never rejected for capacity, whatever the current count.
C2_HeldKeyAlwaysAdmitted ==
  [][ \A h \in Handlers, payload \in Payloads :
        (Arrives(h) /\ IsAudioRequest(parse_message(payload))
           /\ KeyHeld(AsRequest(payload).device_id, AsRequest(payload).session_id))
        => ~RequestRejected(h, payload) ]_vars

\* C3: when the registry holds exactly max_concurrent_sessions keys and an
\* AudioRequest arrives for a key that is not held, the handler ends at once
\* having published exactly one CAPACITY_EXCEEDED Error to the device's response
\* topic, without touching the backend, and the key is not in the registry.
C3_FullRegistryRejects ==
  [][ \A h \in Handlers :
        (pc[h] = "idle" /\ pc'[h] # "idle") =>
          \A payload \in Payloads :
            (Starts(h, payload)
               /\ Cardinality(active_sessions) = max_concurrent_sessions
               /\ ~KeyHeld(AsRequest(payload).device_id, AsRequest(payload).session_id))
            => /\ pc'[h] = "done"
               /\ Len(published'[h]) = 1
               /\ IsCapacityError(published'[h][1], AsRequest(payload).device_id,
                                   AsRequest(payload).session_id)
               /\ websocket'[h] = 0
               /\ ws_state' = ws_state
               /\ svc_sessions' = svc_sessions
               /\ message_stats' = message_stats
               /\ AsRequest(payload).session_id \notin active_sessions' ]_vars

\* C3 witness: with one session held and the registry full, a request of
\* another device and session has been rejected with CAPACITY_EXCEEDED.
C3_Witness ==
  \E g, h \in Handlers :
    /\ AdmittedInFlight(g)
    /\ Cardinality(active_sessions) = max_concurrent_sessions
    /\ outcome[h] = "rejected"
    /\ request[h].device_id # request[g].device_id
    /\ request[h].session_id # request[g].session_id
    /\ Len(published[h]) = 1
    /\ IsCapacityError(published[h][1], request[h].device_id, request[h].session_id)

\* C4: no two handlers of the same (device, session) key are at the same
\* time past admission and driving the backend.
C4_SameKeyNotConcurrent ==
  \A g, h \in Handlers :
    (g # h /\ Driving(g) /\ Driving(h)) => ~SameKey(g, h)

\* C5: each (device, session) key has at most one open backend connection
\* (websocket c is the one made by handler c, for request[c]).
C5_OneOpenConnectionPerKey ==
  \A c, d \in Handlers :
    (c # d /\ ws_state[c] = "open" /\ ws_state[d] = "open") => ~SameKey(c, d)

\* C6: whenever the handling of an admitted request ends, by any path, its
\* key is absent from the registry; and whenever no handler is in flight the
\* registry is empty.
C6_ReleasedOnEveryExit ==
  /\ [](NoneInFlight => active_sessions = {})
  /\ [][ \A h \in Handlers :
           (pc[h] # "done" /\ pc'[h] = "done" /\ request'[h] # NoRequest)
           => request'[h].session_id \notin active_sessions' ]_vars

\* C6 witness: one request ended processed, another ended in an error, no
\* handler is in flight and the registry is empty.
C6_Witness ==
  /\ NoneInFlight
  /\ active_sessions = {}
  /\ \E g, h \in Handlers : outcome[g] = "processed" /\ outcome[h] = "error"

\* C7: two admitted requests of different devices that carry the same
\* session_id occupy two registry entries while both are in flight.
C7_RegistryKeyedByPair ==
  \A g, h \in Handlers :
    (/\ AdmittedInFlight(g) /\ AdmittedInFlight(h)
     /\ request[g].device_id # request[h].device_id
     /\ request[g].session_id = request[h].session_id)
    => Cardinality(active_sessions) >= 2

\* C8: the AudioResponses of one request are published in the order in
\* which the backend produced their chunks (the payload of a chunk is its
\* position in the backend's output for the request).
C8_PublishedInBackendOrder ==
  \A h \in Handlers :
    \A i, j \in 1..Len(published[h]) :
      (/\ i < j
       /\ published[h][i].message_type = "audio_response"
       /\ published[h][j].message_type = "audio_response")
      => published[h][i].payload < published[h][j].payload

\* C8 witness: a request has published two chunks while another request was
\* publishing its own.
C8_Witness ==
  \E g, h \in Handlers :
    /\ g # h
    /\ pc[g] = "recv" /\ Len(published[g]) >= 1
    /\ pc[h] = "recv" /\ Len(published[h]) >= 2

\* What handler h must have published when its stream is complete: one
\* AudioResponse per content delta delivered to it, each on the response
\* topic of its device, with its session_id and its zero-based position.
OneResponsePerChunk(h) ==
  /\ Len(published[h]) = delivered[h]
  /\ \A i \in 1..Len(published[h]) :
       /\ published[h][i].message_type = "audio_response"
       /\ published[h][i].topic =
            <<"iot/">> \o request[h].device_id \o <<"/audio_response">>
       /\ published[h][i].session_id = request[h].session_id
       /\ published[h][i].chunk_id = i - 1
       /\ published[h][i].payload = i

\* C9: when the stream of an admitted request ends with response.done, the
\* handler has published exactly one AudioResponse per chunk.
C9_OneResponsePerChunk ==
  [][ \A h \in Handlers : RecvEnd(h, DoneEvent) => OneResponsePerChunk(h)' ]_vars

\* C9 witness: one delta then the end of the stream: one AudioResponse, chunk_id 0.
C9_Witness ==
  \E h \in Handlers :
    /\ outcome[h] = "processed"
    /\ delivered[h] = 1
    /\ Len(published[h]) = 1
    /\ published[h][1].message_type = "audio_response"
    /\ published[h][1].chunk_id = 0

\* C10: when the backend emits an error event while the responses are being
\* received, an Error is published to the device, the errors counter grows by
\* one, the request is not counted as processed and the session is released.
C10_BackendErrorSurfaces ==
  [][ \A h \in Handlers :
        RecvEnd(h, ErrorEvent) =>
          /\ Len(published'[h]) = Len(published[h]) + 1
          /\ published'[h][Len(published'[h])].message_type = "error"
          /\ message_stats'.errors = message_stats.errors + 1
          /\ message_stats'.requests_processed = message_stats.requests_processed
          /\ request[h].session_id \notin active_sessions' ]_vars

TimeoutEvent == [type |-> "recv_timeout", has_delta |-> FALSE]

\* The last message handler h published is an Error message.
LastIsError(h) ==
  /\ published[h] # <<>>
  /\ published[h][Len(published[h])].message_type = "error"

\* C11: when the bounded wait for a backend message runs out while the
\* responses are being received, the step publishes an Error to the device,
\* releases the session and does not count the request as processed.
C11_ReceiveTimeoutSurfaces ==
  [][ \A h \in Handlers :
        RecvEnd(h, TimeoutEvent) =>
          /\ Len(published'[h]) = Len(published[h]) + 1
          /\ LastIsError(h)'
          /\ published'[h][Len(published'[h])].topic =
               <<"iot/">> \o request[h].device_id \o <<"/audio_response">>
          /\ message_stats'.requests_processed = message_stats.requests_processed
          /\ outcome'[h] # "processed"
          /\ request[h].session_id \notin active_sessions' ]_vars

\* Error codes of the connection class.
ConnectionClassCodes == {"CONNECTION_ERROR"}

\* C12: when every connection strategy fails, or the negotiation fails, the
\* Error published to the device carries a connection-class code, not
\* PROCESSING_ERROR, and the session is released.
C12_ConnectionFailureCode ==
  [][ \A h \in Handlers :
        (pc[h] \in {"connect", "initialize"} /\ pc'[h] = "done") =>
          /\ LastIsError(h)'
          /\ published'[h][Len(published'[h])].error_code \in ConnectionClassCodes
          /\ published'[h][Len(published'[h])].error_code # "PROCESSING_ERROR"
          /\ request[h].session_id \notin active_sessions' ]_vars

\* This step is one in which handling of the admitted request of handler h
\* meets a failure: its audio does not decode, the connection cannot be made,
\* the negotiation fails, a send fails, or the receive loop raises on `ev`.
FailureRaised(h) ==
  \/ \E payload \in Payloads : RequestBadAudio(h, payload)
  \/ \E has_Connection \in BOOLEAN : ConnectFail(h, has_Connection)
  \/ \E why \in InitFailures : InitializeFail(h, why)
  \/ SendFail(h)
  \/ \E ev \in BackendEvents : RaisedInReceive(ev) # "none" /\ RecvEnd(h, ev)

\* C13: every failure raised while an admitted request is handled is turned
\* into an Error published to the device's response topic and counted in the
\* errors statistic, and the handler ends without disturbing the others.
C13_FailuresBecomeErrors ==
  [][ \A h \in Handlers :
        FailureRaised(h) =>
          /\ Len(published'[h]) = Len(published[h]) + 1
          /\ LastIsError(h)'
          /\ published'[h][Len(published'[h])].topic =
               <<"iot/">> \o request'[h].device_id \o <<"/audio_response">>
          /\ message_stats'.errors = message_stats.errors + 1
          /\ pc'[h] = "done"
          /\ \A g \in Handlers \ {h} : pc'[g] = pc[g] ]_vars

\* C14: a payload that fails to decode (text that is no JSON, a missing or
\* unknown message_type, a missing field) is dropped: the step that handles it
\* adds one to errors and nothing else; nothing is published, the registry
\* and the backend connections are untouched.
C14_UndecodableDropped ==
  [][ /\ \A payload \in UndecodableDocs : Raises(parse_message(payload))
      /\ \A h \in Handlers :
           (outcome[h] = "none" /\ outcome'[h] = "dropped") =>
             /\ message_stats' = [message_stats EXCEPT !.errors = @ + 1]
             /\ published' = published
             /\ active_sessions' = active_sessions
             /\ svc_sessions' = svc_sessions
             /\ ws_state' = ws_state
             /\ websocket' = websocket
             /\ pc'[h] = "done" ]_vars

\* C14 witness: a payload was dropped and counted while an admitted request
\* held its key; nothing was published for it.
C14_Witness ==
  \E g, h \in Handlers :
    /\ AdmittedInFlight(g)
    /\ request[g].session_id \in active_sessions
    /\ outcome[h] = "dropped"
    /\ published[h] = << >>
    /\ message_stats.errors = 1

\* ---- the codec
\* The closed set of kinds of the protocol.
ClosedKinds == {"audio_request", "audio_response", "error", "health_check"}

\* The decode error the payload calls for, if any: text that is not JSON, no
\* kind, a kind outside the closed set, or a member of the kind that is absent
\* or of the wrong shape.
DecodeErrorClass(doc) ==
  CASE doc.syntax \in {"invalid_utf8", "invalid_json"} -> "MalformedPayload"
    [] doc.syntax # "object" -> "unclassified"
    [] "message_type" \notin DOMAIN doc.fields -> "MissingKind"
    [] doc.fields.message_type \notin ClosedKinds -> "UnknownKind"
    [] \/ ~(RequiredFields(Route(MessageType(doc.fields.message_type)))
              \subseteq DOMAIN doc.fields)
       \/ doc.ill_typed # {} -> "SchemaMismatch"
    [] OTHER -> "none"

Parsed == "pending" \notin DOMAIN decoded

\* C15: parse_message returns no message for a payload that is malformed,
\* has no kind, has a kind outside the closed set, or has a required member
\* absent or of the wrong shape.
C15_DecodeRejectsClassified ==
  (Parsed /\ DecodeErrorClass(wire) \in
     {"MalformedPayload", "MissingKind", "UnknownKind", "SchemaMismatch"})
  => Raises(decoded)

\* The message_type of each concrete variant.
KindOfVariant ==
  [AudioRequestMessage |-> "MessageType.AUDIO_REQUEST",
   AudioResponseMessage |-> "MessageType.AUDIO_RESPONSE",
   ErrorMessage |-> "MessageType.ERROR",
   HealthCheckMessage |-> "MessageType.HEALTH_CHECK"]

C17_RoundTrip ==
  /\ (created.class # "none" /\ Parsed) => decoded = created
  /\ (created.class # "none" /\ "pending" \notin DOMAIN recovered) =>
       (~Raises(recovered) /\ recovered.bytes = audio_bytes)

\* C17 witness: an audio request made from two bytes (one padding character
\* on the wire) came back equal, with the same two bytes.
C17_Witness ==
  /\ created.class = "AudioRequestMessage"
  /\ Len(audio_bytes) = 2
  /\ Parsed /\ decoded = created
  /\ "pending" \notin DOMAIN recovered
  /\ recovered.bytes = audio_bytes

\* C18: an audio request whose audio_data does not decode as base64 is
\* refused before admission: the step that takes it up publishes nothing for
\* it and its session is not in the registry.
C18_BadBase64RejectedAtDecode ==
  [][ \A h \in Handlers :
        (pc[h] = "idle" /\ pc'[h] # "idle") =>
          \A payload \in Payloads :
            (Starts(h, payload) /\ B64Raises(AsRequest(payload).audio_data))
            => /\ published'[h] = << >>
               /\ AsRequest(payload).session_id \notin active_sessions'
               /\ websocket'[h] = 0 ]_vars

\* ---- the backend connection
AudioEventTypes == { AudioEvent[p] : p \in DOMAIN AudioEvent }

\* The audio events caller h sent, in the order it sent them.
AudioSent(h) ==
  SelectSeq(wire_log[h], LAMBDA f : f.dir = "sent" /\ f.type \in AudioEventTypes)

\* C19: for a request whose audio is empty, _send_audio_data sends no
\* input_audio_buffer.append, input_audio_buffer.commit or response.create.
C19_EmptyAudioNotSent ==
  \A h \in Handlers :
    (pc[h] # "idle" /\ request[h].audio_data = << >>) => AudioSent(h) = << >>

\* The order in which one call sends its audio events.
SendOrder ==
  << "input_audio_buffer.append", "input_audio_buffer.commit", "response.create" >>

\* By the time caller h logged its i-th frame, session.update had been sent
\* and session.created received on websocket w.
Handshaken(w, h, i) ==
  \E g \in Handlers :
    \E j \in 1..Len(wire_log[g]) :
      /\ wire_log[g][j] = Sent(w, "session.update")
      /\ \E k \in (j + 1)..Len(wire_log[g]) :
           /\ wire_log[g][k] = Received(w, "session.created")
           /\ g = h => k < i

\* The i-th frame of caller h is a message read by its receive loop: one it
\* received that is not the reply to its session.update.
IsResponseRead(h, i) ==
  /\ wire_log[h][i].dir = "received"
  /\ ~(i > 1 /\ wire_log[h][i - 1].type = "session.update")

\* C20: an audio event goes out on a connection only after session.update was
\* sent and session.created received on it; the audio events of one call are
\* a prefix of append, commit, response.create; and a call reads a response
\* only after it sent its response.create.
C20_BackendProtocolOrder ==
  \A h \in Handlers :
    LET log == wire_log[h] IN
    /\ \A i \in 1..Len(log) :
         (log[i].dir = "sent" /\ log[i].type \in AudioEventTypes)
         => Handshaken(log[i].ws, h, i)
    /\ Len(AudioSent(h)) <= Len(SendOrder)
    /\ \A i \in 1..Len(AudioSent(h)) : AudioSent(h)[i].type = SendOrder[i]
    /\ \A i \in 1..Len(log) :
         IsResponseRead(h, i)
         => \E j \in 1..(i - 1) : log[j] = Sent(log[i].ws, "response.create")

\* C20 witness: one call made the connection, sent the three audio events
\* after the handshake and read a response; a later call found the stored
\* connection, sent its three audio events on it and read a response.
C20_Witness ==
  \E h, g \in Handlers :
    /\ h # g
    /\ Len(wire_log[h]) > 5
    /\ SubSeq(wire_log[h], 1, 5) =
         << Sent(h, "session.update"), Received(h, "session.created"),
            Sent(h, SendOrder[1]), Sent(h, SendOrder[2]), Sent(h, SendOrder[3]) >>
    /\ Len(wire_log[g]) > 3
    /\ SubSeq(wire_log[g], 1, 3) =
         << Sent(h, SendOrder[1]), Sent(h, SendOrder[2]), Sent(h, SendOrder[3]) >>
    /\ wire_log[g][4].dir = "received"

\* ---- release
\* C23: once the handling of an admitted request has ended and its key is
\* released, the backend connection it used is not open, unless a request
\* still in flight uses it.
C23_ReleaseClosesConnection ==
  \A h \in Handlers :
    (/\ pc[h] = "done"
     /\ websocket[h] # 0
     /\ ~\E g \in Handlers : AdmittedInFlight(g) /\ websocket[g] = websocket[h])
    => ws_state[websocket[h]] # "open"

\* C29: the release at the end of a handling removes the request's session
\* from the registry and nothing else; when the session is not in the
\* registry (released before by another handling, or never admitted) the
\* registry is left as it was, and the handling ends as it would otherwise.
C29_ReleaseIdempotent ==
  [][ \A h \in Handlers :
        (pc[h] # "done" /\ pc'[h] = "done" /\ request'[h] # NoRequest)
        => /\ active_sessions' = active_sessions \ {request'[h].session_id}
           /\ request'[h].session_id \notin active_sessions
                => active_sessions' = active_sessions ]_vars

\* C29 witness: a request was rejected for capacity, so a session that was
\* never admitted was released, and the registry still holds the one session
\* in flight.
C29_Witness ==
  \E g, h \in Handlers :
    /\ outcome[h] = "rejected"
    /\ AdmittedInFlight(g)
    /\ request[g].session_id # request[h].session_id
    /\ active_sessions = {request[g].session_id}

\* ---- negotiation
\* Some call sent an audio event on websocket w.
AudioSentOn(w) ==
  \E g \in Handlers :
    \E i \in 1..Len(wire_log[g]) :
      /\ wire_log[g][i].dir = "sent"
      /\ wire_log[g][i].type \in AudioEventTypes
      /\ wire_log[g][i].ws = w

\* Caller h sent session.update and is past the wait for the reply, and the
\* reply was not session.created: another message, or none.
NegotiationFailed(h) ==
  LET log == wire_log[h] IN
  /\ pc[h] # "await_session_created"
  /\ \E j \in 1..Len(log) :
       /\ log[j].type = "session.update"
       /\ ~(j < Len(log) /\ log[j + 1] = Received(log[j].ws, "session.created"))

\* C22: when the first message after session.update is not session.created,
\* or none arrives within the wait, the call fails: it raises, no audio event
\* is ever sent on that connection, and the connection is not in the
\* service's session cache.
C22_NegotiationFailure ==
  \A h \in Handlers :
    NegotiationFailed(h) =>
      /\ pc[h] = "done"
      /\ outcome[h] = "raised"
      /\ ~AudioSentOn(websocket[h])
      /\ \A k \in DOMAIN svc_sessions : svc_sessions[k] # websocket[h]

\* C22 witness: one call's negotiation got an error message in place of
\* session.created and the call raised; another call's negotiation timed out.
C22_Witness ==
  \E g, h \in Handlers :
    /\ wire_log[h] = << Sent(h, "session.update"), Received(h, "error") >>
    /\ outcome[h] = "raised"
    /\ wire_log[g] = << Sent(g, "session.update") >>
    /\ outcome[g] = "raised"
    /\ ws_state[g] = "open"

\* ---- connecting
\* The priority of the strategies.
PriorityOrder == << "additional_headers", "extra_headers", "basic" >>

\* C21: the strategies a connect call has tried are the first ones of the
\* priority order, each once; every one before the latest failed; the call
\* returns a connection exactly when the latest one completed its handshake,
\* and nothing is tried after that; it raises only when all have failed,
\* with the error of the last one, and then it is over.
C21_ConnectStrategies ==
  \A h \in Handlers :
    LET c == connect_log[h]
        n == Len(c.tried)
    IN
    /\ n <= Len(PriorityOrder)
    /\ \A i \in 1..n : c.tried[i].strategy = PriorityOrder[i]
    /\ \A i \in 1..(n - 1) : c.tried[i].error # "none"
    /\ (c.result = "connected") = (n > 0 /\ c.tried[n].error = "none")
    /\ c.result = "connected" => (pc[h] = "done" /\ ws_state[websocket[h]] = "open")
    /\ (c.result = "raised") =
         (n = Len(PriorityOrder) /\ \A i \in 1..n : c.tried[i].error # "none")
    /\ c.result = "raised" =>
         (pc[h] = "done" /\ websocket[h] = 0 /\ c.error = c.tried[n].error)

\* C21 witness: one call failed with all three strategies, the first and the
\* last with different errors; another call connected with the second
\* strategy after the first was refused.
C21_Witness ==
  \E g, h \in Handlers :
    /\ connect_log[h].result = "raised"
    /\ connect_log[h].tried[1].error # connect_log[h].tried[3].error
    /\ connect_log[g].result = "connected"
    /\ Len(connect_log[g].tried) = 2

\* ------------------------------------------------ the session cleanup task
\* Variant of CleanupTurn: the sessions found are taken out of the registry.
CleanupTurn_reaping ==
  /\ cleanup_pc.at \in {"loop", "sleep"}
  /\ running
  /\ cleanup_pc' = CleanupAt("sleep", Cardinality(active_sessions))
  /\ active_sessions' = {}
  /\ UNCHANGED << codec_vars, wire_log, connect_log, backend, probe, max_concurrent_sessions,
                  message_stats, svc_sessions, ws_state, pc, request, websocket,
                  chunk_id, outcome, delivered, publish_failures, published,
                  running, health_pc, health_published >>

\* One turn of _session_cleanup_task (client.py:395-401): the loop test
\* passes, the number of active sessions is logged when there are any, and
\* the task sleeps 60 s.
CleanupTurn ==
  /\ cleanup_pc.at \in {"loop", "sleep"}
  /\ running
  /\ cleanup_pc' = CleanupAt("sleep", Cardinality(active_sessions))
  /\ UNCHANGED << codec_vars, wire_log, connect_log, backend, probe, handler_vars,
                  max_concurrent_sessions, running, health_pc, health_published >>

\* The loop test fails: the task ends.
CleanupExits ==
  /\ cleanup_pc.at \in {"loop", "sleep"}
  /\ ~running
  /\ cleanup_pc' = CleanupAt("exited", cleanup_pc.logged)
  /\ UNCHANGED << codec_vars, wire_log, connect_log, backend, probe, handler_vars,
                  max_concurrent_sessions, running, health_pc, health_published >>

NextCleanup ==
  \/ \E h \in Handlers : Handles(h)
  \/ CleanupTurn
  \/ CleanupExits
  \/ Stop

SpecCleanup == InitLifecycle /\ [][NextCleanup]_vars

\* ------------------------------------------------------- the health probe
\* OpenAIRealtimeService.health_check (openai_realtime.py:116-176), await by
\* await.  Its websocket is a local of the call; websockets' close() does not
\* raise.

\* Everything of the probe but the variable is left as it is.
ProbeOnly ==
  UNCHANGED << codec_vars, wire_log, connect_log, backend, handler_vars,
               max_concurrent_sessions, running, health_pc, health_published,
               cleanup_pc >>

\* health_check() is called: `websocket = None`, then the first connect.
ProbeBegins ==
  /\ probe.at \in {"idle", "returned"}
  /\ probe' = [at |-> "connect", tried |-> << >>, ws |-> "none", result |-> "pending"]
  /\ ProbeOnly

\* The websockets.connect of the next strategy succeeds: the later ones are
\* skipped (`if not websocket`) and the connection is tested.
ProbeConnects ==
  /\ probe.at = "connect"
  /\ probe' = [probe EXCEPT !.tried = Append(@, Strategies[Len(@) + 1]),
                            !.ws = "open", !.at = "test"]
  /\ ProbeOnly

\* The websockets.connect of the next strategy raises: the next one is tried;
\* after the last one, `return False`.
ProbeConnectFails ==
  LET last == Len(probe.tried) + 1 = Len(Strategies) IN
  /\ probe.at = "connect"
  /\ probe' = [probe EXCEPT !.tried = Append(@, Strategies[Len(@) + 1]),
                            !.at = IF last THEN "returned" ELSE "connect",
                            !.result = IF last THEN "False" ELSE @]
  /\ ProbeOnly

\* Variant of ProbeTested: a failed test returns at once.
ProbeTested_unclosed(acknowledged) ==
  /\ probe.at = "test"
  /\ probe' = [probe EXCEPT !.at = IF acknowledged THEN "close" ELSE "returned",
                            !.result = IF acknowledged THEN "True" ELSE "False"]
  /\ ProbeOnly

\* _test_websocket_connection returns: True when the first message is
\* session.created, False for another message, for none within 5 s and for
\* every exception of its send and recv.
ProbeTested(acknowledged) ==
  /\ probe.at = "test"
  /\ probe' = [probe EXCEPT !.at = "close",
                            !.result = IF acknowledged THEN "True" ELSE "False"]
  /\ ProbeOnly

\* An exception leaves the test (openai_realtime.py:164-170): the result is
\* False and the websocket is closed in the handler.
ProbeTestRaises ==
  /\ probe.at = "test"
  /\ probe' = [probe EXCEPT !.at = "close", !.result = "False"]
  /\ ProbeOnly

\* `await websocket.close()`, then `return result` or `return False`.
ProbeCloses ==
  /\ probe.at = "close"
  /\ probe' = [probe EXCEPT !.ws = "closed", !.at = "returned"]
  /\ ProbeOnly

NextProbe ==
  \/ \E h \in Handlers : Handles(h)
  \/ ProbeBegins
  \/ ProbeConnects
  \/ ProbeConnectFails
  \/ \E acknowledged \in BOOLEAN : ProbeTested(acknowledged)
  \/ ProbeTestRaises
  \/ ProbeCloses

SpecProbe == InitLifecycle /\ [][NextProbe]_vars

\* ------------------------------------------------------ messages in a row
\* The task of a message that was rejected for capacity has ended without
\* entering the service and leaves nothing but its log lines: the next
\* message gets a task of its own (client.py:228-234), here in the same place.
Forget(h) ==
  /\ pc[h] = "done"
  /\ outcome[h] = "rejected"
  /\ pc' = [pc EXCEPT ![h] = "idle"]
  /\ outcome' = [outcome EXCEPT ![h] = "none"]
  /\ request' = [request EXCEPT ![h] = NoRequest]
  /\ published' = [published EXCEPT ![h] = << >>]
  /\ UNCHANGED << codec_vars, wire_log, connect_log, lifecycle_vars, backend,
                  max_concurrent_sessions, active_sessions, message_stats,
                  svc_sessions, ws_state, websocket, chunk_id, delivered,
                  publish_failures >>

NextAdmission ==
  \/ \E h \in Handlers : Handles(h)
  \/ \E h \in Handlers : Forget(h)

SpecAdmission == InitLifecycle /\ [][NextAdmission]_vars

\* ------------------------------------------------- requests run to their end
\* The steps the event loop takes for handler h once its message has been
\* taken in: each is the completion of an await of _handle_audio_request or
\* of process_audio_stream.
Runs(h) ==
  \/ ConnectOk(h)
  \/ \E has_Connection \in BOOLEAN : ConnectFail(h, has_Connection)
  \/ InitializeOk(h)
  \/ \E why \in InitFailures : InitializeFail(h, why)
  \/ SendOk(h)
  \/ SendFail(h)
  \/ \E ev \in ReceiveEvents :
       \/ \E rc \in {"MQTT_ERR_SUCCESS", "MQTT_ERR_NO_CONN"} : RecvChunk(h, ev, rc)
       \/ RecvEnd(h, ev)

NextLive == \E h \in Handlers : Handles(h)

\* The event loop resumes a task whose await has completed, and every await of
\* a handler completes: websockets.connect and the wait for session.created
\* have timeouts, a send returns or raises, and recv() is under wait_for(30).
\* The backend sends at most MaxChunks deltas before it ends the response,
\* fails, closes or goes silent (CanReceive).  Messages need not arrive.
SpecLive ==
  /\ InitLifecycle
  /\ [][NextLive]_vars
  /\ \A h \in Handlers : WF_vars(Runs(h))

\* ---- the life cycle
\* C24: once stop() has completed, no backend connection is open.
C24_StopClosesEverything ==
  ~running => \A w \in DOMAIN ws_state : ws_state[w] # "open"

\* The statuses that report a failed check.
FailingStatuses == {"unhealthy", "degraded"}

\* C26: the health task ends only when the server is no longer running;
\* whatever happens in a turn, the task goes on to sleep and, while the server
\* runs, to the next turn; and a turn whose check failed and whose publish
\* went through hands to the health topic a message with a failing status
\* and the number of sessions in the registry at that moment.
C26_HealthTaskContinues ==
  /\ [](health_pc.at = "exited" => ~running)
  /\ [][ /\ health_pc.at = "checking"
            => health_pc'.at \in {"checking", "sleep", "sleep_after_error"}
         /\ (AtLoopTest /\ running /\ health_pc' # health_pc)
            => health_pc'.at = "checking"
         /\ (health_pc.at = "checking" /\ health_pc'.at = "sleep"
             /\ ~health_pc'.ai_healthy)
            => /\ health_published'.status \in FailingStatuses
               /\ health_published'.active_sessions = Cardinality(active_sessions) ]_vars

\* C26 witness: after a turn that raised, the next turn found the backend
\* failing while a session was in the registry and published that.
C26_Witness ==
  /\ running
  /\ health_pc.at = "sleep"
  /\ ~health_pc.ai_healthy
  /\ health_published = [status |-> "degraded", active_sessions |-> 1]
  /\ active_sessions # {}

\* C27: a step of the health task, whether it publishes or fails, leaves the
\* registry, the service's session cache and the counters as they are and
\* publishes nothing to a device.
C27_HealthIsLocal ==
  [][ health_pc' # health_pc =>
        /\ active_sessions' = active_sessions
        /\ svc_sessions' = svc_sessions
        /\ message_stats' = message_stats
        /\ published' = published ]_vars

\* C27 witness: a turn of the health task failed while a request was in
\* flight with its session in the registry and in the cache, and after
\* counters had moved.
C27_Witness ==
  /\ health_pc.at = "sleep_after_error"
  /\ active_sessions # {}
  /\ \E k \in DOMAIN svc_sessions : svc_sessions[k] # 0
  /\ message_stats.errors > 0
  /\ \E h \in Handlers : published[h] # << >>

\* C28: no step of message handling, of the health task, of stop() or of
\* get_stats() lowers requests_processed, responses_sent or errors.
C28_CountersMonotonic ==
  [][ \A k \in DOMAIN message_stats : message_stats'[k] >= message_stats[k] ]_vars

\* C28 witness: all three counters have moved, and the server was stopped.
C28_Witness ==
  /\ ~running
  /\ message_stats.requests_processed > 0
  /\ message_stats.responses_sent > 1
  /\ message_stats.errors > 0

\* ---- session isolation
\* C30: the connection a caller sends audio on and receives responses from
\* was created for that caller's own (device, session) pair: the caller that
\* made it named the same device and the same session.
C30_SessionIsolation ==
  \A h \in Handlers :
    (pc[h] \in DOMAIN AudioEvent \cup {"recv"} /\ websocket[h] # 0) =>
      /\ request[websocket[h]].device_id = request[h].device_id
      /\ request[websocket[h]].session_id = request[h].session_id

\* ---- termination
\* The positions of a handler whose request was admitted and is not finished.
InFlight == {"connect", "initialize", "send", "recv"}

\* C25: every admitted request comes to its end, and at its end its session
\* is out of the registry.
C25_AdmittedRequestsFinish ==
  \A h \in Handlers :
    (pc[h] \in InFlight) ~>
      (pc[h] = "done" /\ request[h].session_id \notin active_sessions)

\* C25 witness: a request that went through the receive loop, chunks
\* included, has finished and its session is out of the registry.
C25_Witness ==
  \E h \in Handlers :
    /\ pc[h] = "done"
    /\ outcome[h] = "processed"
    /\ chunk_id[h] > 0
    /\ request[h].session_id \notin active_sessions

\* ---- session reuse
\* The key of the request caller h holds.
KeyOf(req) == _create_session_key(req.device_id, req.session_id)

\* C31: a call whose key has a stored connection that is open takes that
\* connection and goes straight to its first audio send, with no connect and
\* no session.update of its own; a call whose key has no stored connection,
\* or a closed one, connects, and once its negotiation has succeeded the
\* connection it made is the one stored under the key.
C31_SessionReuse ==
  /\ [](\A h \in Handlers :
          (websocket[h] # 0 /\ websocket[h] # h) =>
            \A i \in 1..Len(wire_log[h]) :
              /\ wire_log[h][i].ws = websocket[h]
              /\ wire_log[h][i].type \notin {"session.update", "session.created"})
  /\ [][\A h \in Handlers :
          /\ (pc[h] = "idle" /\ pc'[h] # "idle") =>
               LET w == svc_sessions[KeyOf(request'[h])] IN
               IF w # 0 /\ ws_state[w] = "open"
               THEN /\ websocket'[h] = w
                    /\ pc'[h] = "send_append"
                    /\ ws_state' = ws_state
                    /\ svc_sessions' = svc_sessions
               ELSE /\ pc'[h] = "connect"
                    /\ websocket'[h] = 0
          /\ (pc[h] = "await_session_created" /\ pc'[h] = "send_append") =>
               /\ websocket[h] = h
               /\ svc_sessions'[KeyOf(request[h])] = h ]_vars

\* C31 witness: the first call's connection was stored and then closed by the
\* backend; the second call connected and negotiated anew, and its
\* connection now stands in the cache in place of the closed one.
C31_Witness ==
  /\ outcome[1] = "returned"
  /\ ws_state[1] = "closed"
  /\ pc[2] = "send_append"
  /\ websocket[2] = 2
  /\ KeyOf(request[1]) = KeyOf(request[2])
  /\ svc_sessions[KeyOf(request[2])] = 2

\* ---- publish failures
\* The AudioResponse publishes made so far, as (handler, position) pairs.
AudioResponsePublishes ==
  { p \in Handlers \X (1..(MaxChunks + 1)) :
      /\ p[2] <= Len(published[p[1]])
      /\ published[p[1]][p[2]].message_type = "audio_response" }

\* C32: responses_sent is the number of AudioResponse publishes the broker
\* client accepted; the AudioResponses of a request are numbered from zero
\* without a gap, refused ones included; and a step in which a publish is
\* refused changes no counter, publishes no Error, ends no handler and
\* leaves the registry as it is.
C32_PublishFailureIsLocal ==
  /\ [](/\ message_stats.responses_sent =
             Cardinality(AudioResponsePublishes) - publish_failures
        /\ \A p \in AudioResponsePublishes :
             published[p[1]][p[2]].chunk_id = p[2] - 1)
  /\ [][publish_failures' # publish_failures =>
          /\ message_stats' = message_stats
          /\ pc' = pc
          /\ outcome' = outcome
          /\ active_sessions' = active_sessions
          /\ \A h \in Handlers :
               \A i \in 1..Len(published'[h]) :
                 i > Len(published[h]) =>
                   published'[h][i].message_type = "audio_response" ]_vars

\* C32 witness: the publish of a request's first chunk was refused, its
\* second chunk was published after it and accepted, and the request ended
\* as processed with no error counted.
C32_Witness ==
  \E h \in Handlers :
    /\ outcome[h] = "processed"
    /\ Len(published[h]) = 2
    /\ published[h][2].chunk_id = 1
    /\ publish_failures = 1
    /\ message_stats.responses_sent = 1
    /\ message_stats.errors = 0
    /\ \A g \in Handlers : g # h => published[g] = << >>

C34_InFlightWithinCapacity ==
  Cardinality({ h \in Handlers : AdmittedInFlight(h) }) <= max_concurrent_sessions

\* C35: a request rejected for capacity leaves the registry as it was when
\* the request arrived.
C35_RejectionLeavesRegistry ==
  [][ \A h \in Handlers :
        (pc[h] = "idle" /\ pc'[h] = "done" /\ outcome'[h] = "rejected")
        => active_sessions' = active_sessions ]_vars

\* ---- connections left behind
\* C36: every open connection made for a request, once its negotiation is
\* over, is the one stored in the service's session cache under the key of
\* the request it was made for (websocket c is the one made by handler c).
C36_NoConnectionLeaked ==
  \A c \in Handlers :
    (ws_state[c] = "open" /\ pc[c] # "initialize")
    => svc_sessions[KeyOf(request[c])] = c

\* ---- what a request reads on a reused connection
\* C37: every event a caller takes from its connection, whether it becomes a
\* chunk or ends the stream, was emitted by the backend in answer to that
\* caller's own response.create.
C37_OwnEventsOnly ==
  \A h \in Handlers :
    \A i \in 1..Len(backend.read[h]) : backend.read[h][i].for = h

\* ---- accounting
\* The Error messages handler h has published.
ErrorsPublished(h) ==
  { i \in 1..Len(published[h]) : published[h][i].message_type = "error" }

C39_ProbeSelfContained ==
  /\ [](/\ probe.at = "returned" =>
             /\ probe.result \in {"True", "False"}
             /\ probe.ws # "open"
             /\ probe.result = "True" => probe.ws = "closed"
        /\ probe.ws = "open" => probe.at \in {"test", "close"}
        /\ probe.tried = SubSeq(Strategies, 1, Len(probe.tried)))
  /\ [][probe' # probe =>
          /\ svc_sessions' = svc_sessions
          /\ ws_state' = ws_state
          /\ active_sessions' = active_sessions ]_vars

\* C39 witness: the first two strategies failed, the third connected, the
\* test failed, and the probe returned False with its connection closed
\* while a request's session was in the cache with its connection open.
C39_Witness ==
  /\ probe = [at |-> "returned", tried |-> Strategies, ws |-> "closed",
              result |-> "False"]
  /\ \E h \in Handlers :
       /\ pc[h] = "recv"
       /\ ws_state[h] = "open"
       /\ svc_sessions[KeyOf(request[h])] = h

====
